---------------------------- MODULE Spec2Model ----------------------------
(***************************************************************************)
(* mdnfo: a terminal Markdown viewer (src/main.go).                        *)
(*                                                                         *)
(* The module models the Bubble Tea model of src/main.go: the document     *)
(* indexer (buildIndexes, slugify, stripANSI, indexLineOf), the scroll     *)
(* engine (startScrollTo, the scrollTick case of Update) and the link      *)
(* navigator (Tab, Shift-Tab, Enter, scrollToLink, followLink).            *)
(*                                                                         *)
(* Strings are sequences of runes, a rune being its code point, so that    *)
(* the comparisons of the source (r >= 'a' && r <= 'z') read the same.     *)
(***************************************************************************)
EXTENDS Integers, Sequences, FiniteSets, TLC

\* ------------------------------------------------------------------------
\* Runes the source names
\* ------------------------------------------------------------------------
RuneSpace == 32
RuneHyphen == 45
RuneHash == 35
RuneNL == 10
RuneESC == 27

\* unicode.IsSpace, as used by strings.Fields and strings.TrimSpace:
\* '\t', '\n', '\v', '\f', '\r', ' ', U+0085 (NEL), U+00A0 (NBSP).
IsSpace(r) == r \in {9, 10, 11, 12, 13, 32, 133, 160}

\* ------------------------------------------------------------------------
\* Generic string helpers (package strings)
\* ------------------------------------------------------------------------
Max(a, b) == IF a > b THEN a ELSE b

\* clamp(v, lo, hi) of main.go
Clamp(v, lo, hi) == IF v < lo THEN lo ELSE IF v > hi THEN hi ELSE v

Abs(x) == IF x < 0 THEN -x ELSE x

\* unicode.ToLower on the runes of the model's alphabets (ASCII)
ToLowerRune(r) == IF r >= 65 /\ r <= 90 THEN r + 32 ELSE r

\* strings.ToLower
ToLower(s) == [i \in 1..Len(s) |-> ToLowerRune(s[i])]

\* strings.ReplaceAll(s, " ", "-")
ReplaceSpaces(s) == [i \in 1..Len(s) |-> IF s[i] = RuneSpace THEN RuneHyphen ELSE s[i]]

\* strings.Fields: the maximal runs of non-space runes, in order
RECURSIVE FieldsFrom(_, _, _)
FieldsFrom(s, i, cur) ==
    IF i > Len(s)
    THEN IF cur = <<>> THEN <<>> ELSE <<cur>>
    ELSE IF IsSpace(s[i])
         THEN (IF cur = <<>> THEN <<>> ELSE <<cur>>) \o FieldsFrom(s, i + 1, <<>>)
         ELSE FieldsFrom(s, i + 1, Append(cur, s[i]))

Fields(s) == FieldsFrom(s, 1, <<>>)

\* strings.Join(parts, sep)
RECURSIVE Join(_, _)
Join(parts, sep) ==
    IF parts = <<>> THEN <<>>
    ELSE IF Len(parts) = 1 THEN parts[1]
    ELSE parts[1] \o sep \o Join(Tail(parts), sep)

\* strings.TrimLeft(s, cutset) and strings.TrimRight(s, cutset), the cutset a
\* set of runes
RECURSIVE TrimLeft(_, _)
TrimLeft(s, cut) ==
    IF s # <<>> /\ s[1] \in cut THEN TrimLeft(Tail(s), cut) ELSE s

RECURSIVE TrimRight(_, _)
TrimRight(s, cut) ==
    IF s # <<>> /\ s[Len(s)] \in cut THEN TrimRight(SubSeq(s, 1, Len(s) - 1), cut) ELSE s

\* strings.Trim(s, "-")
TrimHyphens(s) == TrimRight(TrimLeft(s, {RuneHyphen}), {RuneHyphen})

SpaceRunes == {9, 10, 11, 12, 13, 32, 133, 160}

\* strings.TrimSpace
TrimSpace(s) == TrimRight(TrimLeft(s, SpaceRunes), SpaceRunes)

\* strings.HasPrefix(s, "#") and strings.TrimPrefix(s, "#")
HasHashPrefix(s) == s # <<>> /\ s[1] = RuneHash
TrimHashPrefix(s) == IF HasHashPrefix(s) THEN Tail(s) ELSE s

\* ------------------------------------------------------------------------
\* slugify (main.go:38-47)
\* ------------------------------------------------------------------------
\* the filter of the loop: letters, digits, space and hyphen are kept
SlugKeeps(r) ==
    \/ (r >= 97 /\ r <= 122)
    \/ (r >= 48 /\ r <= 57)
    \/ r = RuneSpace
    \/ r = RuneHyphen

SlugFilter(s) == SelectSeq(ToLower(s), SlugKeeps)

\* a slugify that forgets the final strings.Trim
slugify_NoTrim(s) ==
    Join(Fields(ReplaceSpaces(SlugFilter(s))), <<RuneHyphen>>)

\* a slugify that takes one hyphen at most off each end
slugify_TrimOnce(s) ==
    LET j == Join(Fields(ReplaceSpaces(SlugFilter(s))), <<RuneHyphen>>)
        l == IF j # <<>> /\ j[1] = RuneHyphen THEN Tail(j) ELSE j
    IN IF l # <<>> /\ l[Len(l)] = RuneHyphen THEN SubSeq(l, 1, Len(l) - 1) ELSE l

\* strings.Trim(strings.Join(strings.Fields(strings.ReplaceAll(b, " ", "-")), "-"), "-")
slugify(s) ==
    TrimHyphens(Join(Fields(ReplaceSpaces(SlugFilter(s))), <<RuneHyphen>>))


\* ------------------------------------------------------------------------
\* Documents and what the renderer makes of them
\* ------------------------------------------------------------------------
\* rawMarkdown is immutable once loaded; the model holds a document by its
\* number and by what the two regular expressions of main.go:53-56 find in it.
\* renderMarkdown (glamour) is an external renderer: its output for a document
\* depends on the wrap width, and is given here as the text the viewer gets.
\* The outputs carry SGR sequences and end with one or two newlines.
\* Document 1: "# Title\n\nSee [here](#title), [site](https://example.org) and [pad]( http://e.org ).\n"
\*   capture group 1 of every reHeading match, in order
Doc1Heading1 == <<84, 105, 116, 108, 101>>  \* "Title"
Doc1Link1Text == <<104, 101, 114, 101>>  \* "here"
Doc1Link1Dest == <<35, 116, 105, 116, 108, 101>>  \* "#title"
Doc1Link2Text == <<115, 105, 116, 101>>  \* "site"
Doc1Link2Dest == <<104, 116, 116, 112, 115, 58, 47, 47, 101, 120, 97, 109, 112, 108, 101, 46, 111, 114, 103>>  \* "https://example.org"
Doc1Link3Text == <<112, 97, 100>>  \* "pad"
Doc1Link3Dest == <<32, 104, 116, 116, 112, 58, 47, 47, 101, 46, 111, 114, 103, 32>>  \* " http://e.org "
\* rendered at wrap 40: "\nESC[1m# TitleESC[0m\n\nSee here, site https://example.org\nand pad http://e.org.\n\n"
Doc1Render40 ==
    <<10, 27, 91, 49, 109, 35, 32, 84, 105, 116, 108, 101, 27, 91, 48, 109,
      10, 10, 83, 101, 101, 32, 104, 101, 114, 101, 44, 32, 115, 105, 116,
      101, 32, 104, 116, 116, 112, 115, 58, 47, 47, 101, 120, 97, 109, 112,
      108, 101, 46, 111, 114, 103, 10, 97, 110, 100, 32, 112, 97, 100, 32,
      104, 116, 116, 112, 58, 47, 47, 101, 46, 111, 114, 103, 46, 10, 10>>
\* rendered at wrap 20: "\nESC[1m# TitleESC[0m\n\nSee here, site\nhttps://example.org\nand pad\nhttp://e.org.\n"
Doc1Render20 ==
    <<10, 27, 91, 49, 109, 35, 32, 84, 105, 116, 108, 101, 27, 91, 48, 109,
      10, 10, 83, 101, 101, 32, 104, 101, 114, 101, 44, 32, 115, 105, 116,
      101, 10, 104, 116, 116, 112, 115, 58, 47, 47, 101, 120, 97, 109, 112,
      108, 101, 46, 111, 114, 103, 10, 97, 110, 100, 32, 112, 97, 100, 10,
      104, 116, 116, 112, 58, 47, 47, 101, 46, 111, 114, 103, 46, 10>>

\* Document 2: "[one](#intro) [two](#Introduction) [three](#INTRO) [four](#introduction) [five](#INTRODUCTION)\n\nalpha beta\n\n## Introduction\nbody more\n"
\*   capture group 1 of every reHeading match, in order
Doc2Heading1 == <<73, 110, 116, 114, 111, 100, 117, 99, 116, 105, 111, 110>>  \* "Introduction"
Doc2Link1Text == <<111, 110, 101>>  \* "one"
Doc2Link1Dest == <<35, 105, 110, 116, 114, 111>>  \* "#intro"
Doc2Link2Text == <<116, 119, 111>>  \* "two"
Doc2Link2Dest == <<35, 73, 110, 116, 114, 111, 100, 117, 99, 116, 105, 111, 110>>  \* "#Introduction"
Doc2Link3Text == <<116, 104, 114, 101, 101>>  \* "three"
Doc2Link3Dest == <<35, 73, 78, 84, 82, 79>>  \* "#INTRO"
Doc2Link4Text == <<102, 111, 117, 114>>  \* "four"
Doc2Link4Dest == <<35, 105, 110, 116, 114, 111, 100, 117, 99, 116, 105, 111, 110>>  \* "#introduction"
Doc2Link5Text == <<102, 105, 118, 101>>  \* "five"
Doc2Link5Dest == <<35, 73, 78, 84, 82, 79, 68, 85, 67, 84, 73, 79, 78>>  \* "#INTRODUCTION"
\* rendered at wrap 40: "\none two three four five\n\nalpha beta\n\nESC[1;34m## IntroductionESC[0m\nbody more\n\n"
Doc2Render40 ==
    <<10, 111, 110, 101, 32, 116, 119, 111, 32, 116, 104, 114, 101, 101,
      32, 102, 111, 117, 114, 32, 102, 105, 118, 101, 10, 10, 97, 108, 112,
      104, 97, 32, 98, 101, 116, 97, 10, 10, 27, 91, 49, 59, 51, 52, 109,
      35, 35, 32, 73, 110, 116, 114, 111, 100, 117, 99, 116, 105, 111, 110,
      27, 91, 48, 109, 10, 98, 111, 100, 121, 32, 109, 111, 114, 101, 10,
      10>>
\* rendered at wrap 20: "\none two three\nfour five\n\nalpha\nbeta\n\nESC[1;34m## IntroductionESC[0m\nbody\nmore\n"
Doc2Render20 ==
    <<10, 111, 110, 101, 32, 116, 119, 111, 32, 116, 104, 114, 101, 101,
      10, 102, 111, 117, 114, 32, 102, 105, 118, 101, 10, 10, 97, 108, 112,
      104, 97, 10, 98, 101, 116, 97, 10, 10, 27, 91, 49, 59, 51, 52, 109,
      35, 35, 32, 73, 110, 116, 114, 111, 100, 117, 99, 116, 105, 111, 110,
      27, 91, 48, 109, 10, 98, 111, 100, 121, 10, 109, 111, 114, 101, 10>>

\* Document 3: "# Getting Started!  \n\n(text without links)\n\n# "
\*   capture group 1 of every reHeading match, in order
Doc3Heading1 == <<71, 101, 116, 116, 105, 110, 103, 32, 83, 116, 97, 114, 116, 101, 100, 33, 32, 32>>  \* "Getting Started!  "
Doc3Heading2 == <<>>  \* ""
\* rendered at wrap 40: "\nESC[1m# Getting Started!ESC[0m\n\nt1\nt2\nt3\n\n"
Doc3Render40 ==
    <<10, 27, 91, 49, 109, 35, 32, 71, 101, 116, 116, 105, 110, 103, 32,
      83, 116, 97, 114, 116, 101, 100, 33, 27, 91, 48, 109, 10, 10, 116,
      49, 10, 116, 50, 10, 116, 51, 10, 10>>
\* rendered at wrap 20: "\nESC[1m# Getting Started!ESC[0m\n\nt1\nt2\nt3\nt4\nt5\nt6\n"
Doc3Render20 ==
    <<10, 27, 91, 49, 109, 35, 32, 71, 101, 116, 116, 105, 110, 103, 32,
      83, 116, 97, 114, 116, 101, 100, 33, 27, 91, 48, 109, 10, 10, 116,
      49, 10, 116, 50, 10, 116, 51, 10, 116, 52, 10, 116, 53, 10, 116, 54,
      10>>

\* Document 4: "# *Intro*\n\n[go](#intro) [far](#nowhere) [**b**](#none)\n\n## Intro!\n## Intro\n"
\*   capture group 1 of every reHeading match, in order
Doc4Heading1 == <<42, 73, 110, 116, 114, 111, 42>>  \* "*Intro*"
Doc4Heading2 == <<73, 110, 116, 114, 111, 33>>  \* "Intro!"
Doc4Heading3 == <<73, 110, 116, 114, 111>>  \* "Intro"
Doc4Link1Text == <<103, 111>>  \* "go"
Doc4Link1Dest == <<35, 105, 110, 116, 114, 111>>  \* "#intro"
Doc4Link2Text == <<102, 97, 114>>  \* "far"
Doc4Link2Dest == <<35, 110, 111, 119, 104, 101, 114, 101>>  \* "#nowhere"
Doc4Link3Text == <<42, 42, 98, 42, 42>>  \* "**b**"
Doc4Link3Dest == <<35, 110, 111, 110, 101>>  \* "#none"
\* rendered at wrap 40: "\nESC[1m# IntroESC[0m\n\ngo far b\n\nESC[1;34m## Intro!ESC[0m\nESC[1;34m## IntroESC[0m\n\n"
Doc4Render40 ==
    <<10, 27, 91, 49, 109, 35, 32, 73, 110, 116, 114, 111, 27, 91, 48, 109,
      10, 10, 103, 111, 32, 102, 97, 114, 32, 98, 10, 10, 27, 91, 49, 59,
      51, 52, 109, 35, 35, 32, 73, 110, 116, 114, 111, 33, 27, 91, 48, 109,
      10, 27, 91, 49, 59, 51, 52, 109, 35, 35, 32, 73, 110, 116, 114, 111,
      27, 91, 48, 109, 10, 10>>
\* rendered at wrap 20: "\nESC[1m# IntroESC[0m\n\ngo far\nb\n\nESC[1;34m## Intro!ESC[0m\nESC[1;34m## IntroESC[0m\n"
Doc4Render20 ==
    <<10, 27, 91, 49, 109, 35, 32, 73, 110, 116, 114, 111, 27, 91, 48, 109,
      10, 10, 103, 111, 32, 102, 97, 114, 10, 98, 10, 10, 27, 91, 49, 59,
      51, 52, 109, 35, 35, 32, 73, 110, 116, 114, 111, 33, 27, 91, 48, 109,
      10, 27, 91, 49, 59, 51, 52, 109, 35, 35, 32, 73, 110, 116, 114, 111,
      27, 91, 48, 109, 10>>

DocIds == {1, 2, 3, 4}

\* reHeading.FindAllStringSubmatch(m.rawMarkdown, -1): mm[1] of every match
RawHeadings(d) ==
    CASE d = 1 -> <<Doc1Heading1>>
      [] d = 2 -> <<Doc2Heading1>>
      [] d = 3 -> <<Doc3Heading1, Doc3Heading2>>
      [] d = 4 -> <<Doc4Heading1, Doc4Heading2, Doc4Heading3>>

\* reLink.FindAllStringSubmatchIndex(m.rawMarkdown, -1): the text and dest groups
RawLinks(d) ==
    CASE d = 1 -> << [text |-> Doc1Link1Text, dest |-> Doc1Link1Dest],
                     [text |-> Doc1Link2Text, dest |-> Doc1Link2Dest],
                     [text |-> Doc1Link3Text, dest |-> Doc1Link3Dest] >>
      [] d = 2 -> << [text |-> Doc2Link1Text, dest |-> Doc2Link1Dest],
                     [text |-> Doc2Link2Text, dest |-> Doc2Link2Dest],
                     [text |-> Doc2Link3Text, dest |-> Doc2Link3Dest],
                     [text |-> Doc2Link4Text, dest |-> Doc2Link4Dest],
                     [text |-> Doc2Link5Text, dest |-> Doc2Link5Dest] >>
      [] d = 3 -> << >>
      [] d = 4 -> << [text |-> Doc4Link1Text, dest |-> Doc4Link1Dest],
                     [text |-> Doc4Link2Text, dest |-> Doc4Link2Dest],
                     [text |-> Doc4Link3Text, dest |-> Doc4Link3Dest] >>

\* the wrap widths the renderer is asked for
WrapWidths == {20, 40}

\* renderMarkdown(raw, wrap, style) when it succeeds
renderMarkdown(d, wrap) ==
    CASE d = 1 /\ wrap = 40 -> Doc1Render40
      [] d = 1 /\ wrap = 20 -> Doc1Render20
      [] d = 2 /\ wrap = 40 -> Doc2Render40
      [] d = 2 /\ wrap = 20 -> Doc2Render20
      [] d = 3 /\ wrap = 40 -> Doc3Render40
      [] d = 3 /\ wrap = 20 -> Doc3Render20
      [] d = 4 /\ wrap = 40 -> Doc4Render40
      [] d = 4 /\ wrap = 20 -> Doc4Render20

\* ------------------------------------------------------------------------
\* stripANSI (main.go:49-51)
\*   \x1b\[[0-9;]*[A-Za-z] | \x1b\]8;;.*?\x1b\\ | \x1b\\
\* ------------------------------------------------------------------------
IsParamRune(r) == (r >= 48 /\ r <= 57) \/ r = 59
IsLetter(r) == (r >= 65 /\ r <= 90) \/ (r >= 97 /\ r <= 122)

At(s, i) == IF i >= 1 /\ i <= Len(s) THEN s[i] ELSE -1

\* the first index >= j that holds no rune of [0-9;]
RECURSIVE ParamEnd(_, _)
ParamEnd(s, j) == IF IsParamRune(At(s, j)) THEN ParamEnd(s, j + 1) ELSE j

\* \x1b\[[0-9;]*[A-Za-z] at i: the index after the match, 0 when it fails
MatchCSI(s, i) ==
    IF At(s, i) = RuneESC /\ At(s, i + 1) = 91
    THEN LET e == ParamEnd(s, i + 2)
         IN IF IsLetter(At(s, e)) THEN e + 1 ELSE 0
    ELSE 0

\* .*?\x1b\\ from j: the index after the first ESC '\' that no newline precedes
RECURSIVE LazyToST(_, _)
LazyToST(s, j) ==
    IF j > Len(s) THEN 0
    ELSE IF At(s, j) = RuneESC /\ At(s, j + 1) = 92 THEN j + 2
    ELSE IF At(s, j) = RuneNL THEN 0
    ELSE LazyToST(s, j + 1)

\* \x1b\]8;;.*?\x1b\\ at i
MatchOSC8(s, i) ==
    IF /\ At(s, i) = RuneESC /\ At(s, i + 1) = 93 /\ At(s, i + 2) = 56
       /\ At(s, i + 3) = 59 /\ At(s, i + 4) = 59
    THEN LazyToST(s, i + 5)
    ELSE 0

\* \x1b\\ at i
MatchST(s, i) == IF At(s, i) = RuneESC /\ At(s, i + 1) = 92 THEN i + 2 ELSE 0

\* the alternatives in the order of the expression (leftmost-first)
MatchANSI(s, i) ==
    IF MatchCSI(s, i) # 0 THEN MatchCSI(s, i)
    ELSE IF MatchOSC8(s, i) # 0 THEN MatchOSC8(s, i)
    ELSE MatchST(s, i)

RECURSIVE StripFrom(_, _)
StripFrom(s, i) ==
    IF i > Len(s) THEN <<>>
    ELSE IF MatchANSI(s, i) # 0 THEN StripFrom(s, MatchANSI(s, i))
    ELSE <<s[i]>> \o StripFrom(s, i + 1)

\* ansiRE.ReplaceAllString(s, "")
stripANSI(s) == StripFrom(s, 1)

\* ------------------------------------------------------------------------
\* indexLineOf (main.go:171-180)
\* ------------------------------------------------------------------------
OccursAt(haystack, needle, p) ==
    /\ p + Len(needle) - 1 <= Len(haystack)
    /\ \A k \in 1..Len(needle) : haystack[p + k - 1] = needle[k]

\* strings.Index: the first position (from 1) of needle, 0 when there is none
StringsIndex(haystack, needle) ==
    LET hits == {p \in 1..Len(haystack) : OccursAt(haystack, needle, p)}
    IN IF hits = {} THEN 0 ELSE CHOOSE p \in hits : \A q \in hits : p <= q

\* bytes.Count(s, "\n")
CountNL(s) == Cardinality({i \in 1..Len(s) : s[i] = RuneNL})

indexLineOf(haystack, needle) ==
    IF needle = <<>> THEN -1
    ELSE LET pos == StringsIndex(haystack, needle)
         IN IF pos = 0 THEN -1 ELSE CountNL(SubSeq(haystack, 1, pos - 1))

\* ------------------------------------------------------------------------
\* buildIndexes (main.go:139-169), the part that does not read linkIndex
\* ------------------------------------------------------------------------
\* a heading loop that takes the text itself as the anchor
RECURSIVE HeadingsOf_RawAnchor(_, _)
HeadingsOf_RawAnchor(raws, plain) ==
    IF raws = <<>> THEN <<>>
    ELSE LET txt == TrimSpace(Head(raws))
         IN IF txt = <<>>
            THEN HeadingsOf_RawAnchor(Tail(raws), plain)
            ELSE << [text |-> txt, anchor |-> txt,
                     renderedLine |-> indexLineOf(plain, txt)] >>
                 \o HeadingsOf_RawAnchor(Tail(raws), plain)

\* the heading loop: blank texts are skipped, the anchor is the slug of the text
RECURSIVE HeadingsOf(_, _)
HeadingsOf(raws, plain) ==
    IF raws = <<>> THEN <<>>
    ELSE LET txt == TrimSpace(Head(raws))
         IN IF txt = <<>>
            THEN HeadingsOf(Tail(raws), plain)
            ELSE << [text |-> txt, anchor |-> slugify(txt),
                     renderedLine |-> indexLineOf(plain, txt)] >>
                 \o HeadingsOf(Tail(raws), plain)

\* a needle that is the link's text whatever its dest
LinkNeedle_Text(l) == l.text

\* the link loop: the needle is the text of an anchor link, the dest otherwise
LinkNeedle(l) == IF HasHashPrefix(l.dest) THEN l.text ELSE l.dest

LinksOf(raws, plain) ==
    [i \in 1..Len(raws) |->
        [text |-> raws[i].text, target |-> raws[i].dest,
         renderedLine |-> indexLineOf(plain, LinkNeedle(raws[i]))]]

\* len(strings.Split(strings.TrimRight(out, "\n"), "\n"))
TotalLinesOf(out) == CountNL(TrimRight(out, {RuneNL})) + 1

\* len(strings.Split(s, "\n")): the lines viewport.SetContent keeps
ViewLinesOf(out) == CountNL(out) + 1

\* what a successful recalcRendered derives from the renderer's output
Derived(d, wrap) ==
    LET out == renderMarkdown(d, wrap)
        plain == stripANSI(out)
    IN [totalLines |-> TotalLinesOf(out),
        viewLines |-> ViewLinesOf(out),
        headings |-> HeadingsOf(RawHeadings(d), plain),
        links |-> LinksOf(RawLinks(d), plain)]

\* evaluated once for every document and wrap width
DerivedTable == [d \in DocIds |-> [w \in WrapWidths |-> Derived(d, w)]]

\* ------------------------------------------------------------------------
\* State
\* ------------------------------------------------------------------------
VARIABLES
    rawMarkdown,    \* m.rawMarkdown: the number of the loaded document (the text
                    \* itself under ExtractSpec)
    wrapWidth,      \* m.wrapWidth: the --wrap flag
    viewWidth,      \* m.view.Width
    viewHeight,     \* m.view.Height
    viewLines,      \* len(m.view.lines): the lines the viewport holds
    yOffset,        \* m.view.YOffset
    rendered,       \* m.rendered: 0 for "", else the wrap width of the output held
    totalLines,     \* m.totalLines
    links,          \* m.links
    headings,       \* m.headings
    linkIndex,      \* m.linkIndex, -1 none
    err,            \* m.err # nil
    animating,      \* m.animating
    targetOffset,   \* m.targetOffset
    pendingTicks,   \* scrollTick messages scheduled by tea.Tick and not yet handled
    openCalls,      \* the arguments of the openURL calls of the last message handled
    pc,             \* "main" before tea.NewProgram, "run" in the event loop, "quit"
    lastMsg,        \* the last message Update handled
    reqLive,        \* a scroll request was made and only ticks were handled since
    navFrom,        \* observer: linkIndex when the current run of Tab/Shift-Tab began
    navKeys,        \* observer: the Tab/Shift-Tab keys of the current run
    steps,          \* observer: ticks handled since the scroll request, -1 before it
    slugIn,         \* the argument given to slugify
    slugOut,        \* what slugify returned for it
    crt             \* the fields the streaming variant (part_001:114-136) adds

progVars == <<rawMarkdown, wrapWidth, viewWidth, viewHeight, viewLines, yOffset,
              rendered, totalLines, links, headings, linkIndex, err, animating,
              targetOffset, pendingTicks, openCalls, pc, lastMsg, reqLive>>
navVars == <<navFrom, navKeys>>
slugVars == <<slugIn, slugOut>>
vars == <<rawMarkdown, wrapWidth, viewWidth, viewHeight, viewLines, yOffset,
          rendered, totalLines, links, headings, linkIndex, err, animating,
          targetOffset, pendingTicks, openCalls, pc, lastMsg, reqLive,
          navFrom, navKeys, steps, slugIn, slugOut, crt>>

\* ------------------------------------------------------------------------
\* Bounds and the environment's choices
\* ------------------------------------------------------------------------
\* scrollTick messages in flight at once (each scroll key adds one)
MaxPending == 2

\* the sizes term.GetSize and tea.WindowSizeMsg report
TermWidths == {20, 40}
TermHeights == {4, 9}

\* the values of --wrap: 0 is "the terminal's width"
WrapFlags == {0, 20}

\* ------------------------------------------------------------------------
\* bubbles/viewport, as main.go uses it (viewport.New(0, 0), default Style)
\* ------------------------------------------------------------------------
\* Model.maxYOffset: max(0, len(m.lines) - m.Height)
maxYOffset(nlines, height) == Max(0, nlines - height)

\* Model.SetYOffset(n): m.YOffset = clamp(n, 0, m.maxYOffset())
SetYOffset(n, nlines, height) == Clamp(n, 0, maxYOffset(nlines, height))

\* Model.GotoTop
GotoTop(nlines, height) == SetYOffset(0, nlines, height)

\* Model.GotoBottom
GotoBottom(nlines, height) == SetYOffset(maxYOffset(nlines, height), nlines, height)

\* Model.SetContent(s): the offset moves only when it is past the last line
SetContent(off, nlines, height) ==
    IF off > nlines - 1 THEN GotoBottom(nlines, height) ELSE off

\* ------------------------------------------------------------------------
\* The computations of the handlers
\* ------------------------------------------------------------------------
\* max(0, m.totalLines - m.view.Height)
MaxOffset == Max(0, totalLines - viewHeight)

\* a startScrollTo that forgets the upper clamp
ScrollTarget_NoUpper(target) == IF target < 0 THEN 0 ELSE target

\* startScrollTo (main.go:192-198): the target clamped to [0, maxOffset]
ScrollTarget(target) ==
    IF target < 0 THEN 0
    ELSE IF target > MaxOffset THEN MaxOffset
    ELSE target

\* a tick that always steps by diff / 5, also when that is 0
TickNewOffset_NoUnitStep(cur, tgt) ==
    LET diff == tgt - cur
        q == IF diff >= 0 THEN diff \div 5 ELSE -((-diff) \div 5)
    IN cur + q

\* case scrollTick (main.go:307-319): Go's / truncates toward zero
TickNewOffset(cur, tgt) ==
    LET diff == tgt - cur
        q == IF diff >= 0 THEN diff \div 5 ELSE -((-diff) \div 5)
        step == IF q = 0 THEN (IF diff > 0 THEN 1 ELSE -1) ELSE q
        newOff == cur + step
    IN IF (diff > 0 /\ newOff > tgt) \/ (diff < 0 /\ newOff < tgt) THEN tgt ELSE newOff

\* a Tab that does not wrap around
NextLinkIndex_NoWrap(i, n) == IF i = -1 THEN 0 ELSE i + 1

\* case tea.KeyTab (main.go:270-274)
NextLinkIndex(i, n) == IF i = -1 THEN 0 ELSE (i + 1) % n

\* a Shift-Tab that starts at the first link
PrevLinkIndex_FromFirst(i, n) == IF i = -1 THEN 0 ELSE (i - 1 + n) % n

\* case tea.KeyShiftTab (main.go:280-284)
PrevLinkIndex(i, n) == IF i = -1 THEN n - 1 ELSE (i - 1 + n) % n

\* a scrollToLink that puts the link's line at the top of the viewport
scrollToLink_Top(idx) ==
    IF idx < 0 \/ idx >= Len(links) THEN yOffset
    ELSE LET line == links[idx + 1].renderedLine
         IN IF line < 0 THEN yOffset
            ELSE SetYOffset(Clamp(line, 0, MaxOffset), viewLines, viewHeight)

\* scrollToLink (main.go:333-352): the offset after it
scrollToLink(idx) ==
    IF idx < 0 \/ idx >= Len(links) THEN yOffset
    ELSE LET line == links[idx + 1].renderedLine
             t1 == line - (viewHeight \div 2)
             t2 == IF t1 < 0 THEN 0 ELSE t1
             t3 == IF t2 > totalLines - viewHeight THEN totalLines - viewHeight ELSE t2
             t4 == IF t3 < 0 THEN 0 ELSE t3
         IN IF line < 0 THEN yOffset ELSE SetYOffset(t4, viewLines, viewHeight)

\* a match test that compares the anchor alone
HeadingMatches_AnchorOnly(h, anc) == h.anchor = anc

\* followLink (main.go:362): the three-way test
HeadingMatches(h, anc) ==
    \/ h.anchor = anc
    \/ slugify(h.text) = anc
    \/ slugify(anc) = h.anchor

\* a loop that returns on the first heading that matches, resolved or not
FollowHeading_FirstMatch(anc) ==
    LET hits == {i \in 1..Len(headings) : HeadingMatches(headings[i], anc)}
    IN IF hits = {} THEN 0 ELSE CHOOSE i \in hits : \A j \in hits : i <= j

\* followLink (main.go:361-368): the heading the loop returns on, 0 when the loop
\* runs to its end
FollowHeading(anc) ==
    LET hits == {i \in 1..Len(headings) :
                    HeadingMatches(headings[i], anc) /\ headings[i].renderedLine >= 0}
    IN IF hits = {} THEN 0 ELSE CHOOSE i \in hits : \A j \in hits : i <= j

\* a followLink that jumps to the link's own line, whatever the headings
followLinkOffset_LinkLine(l) ==
    LET dest == TrimSpace(l.target)
    IN IF dest # <<>> /\ HasHashPrefix(dest) /\ l.renderedLine >= 0
       THEN SetYOffset(Clamp(l.renderedLine, 0, MaxOffset), viewLines, viewHeight)
       ELSE yOffset

\* followLink (main.go:354-375): the offset after it
followLinkOffset(l) ==
    LET dest == TrimSpace(l.target)
        anc == TrimHashPrefix(dest)
        h == FollowHeading(anc)
    IN IF dest = <<>> THEN yOffset
       ELSE IF HasHashPrefix(dest)
            THEN IF h # 0
                 THEN SetYOffset(Clamp(headings[h].renderedLine, 0, MaxOffset),
                                 viewLines, viewHeight)
                 ELSE IF l.renderedLine >= 0
                      THEN SetYOffset(Clamp(l.renderedLine, 0, MaxOffset),
                                      viewLines, viewHeight)
                      ELSE yOffset
            ELSE yOffset

\* a followLink that hands openURL the target as written
followLinkOpens_Untrimmed(l) ==
    LET dest == TrimSpace(l.target)
    IN IF dest = <<>> \/ HasHashPrefix(dest) THEN <<>> ELSE <<l.target>>

\* followLink (main.go:355-374): the openURL calls it makes
followLinkOpens(l) ==
    LET dest == TrimSpace(l.target)
    IN IF dest = <<>> \/ HasHashPrefix(dest) THEN <<>> ELSE <<dest>>

\* ------------------------------------------------------------------------
\* Init: initialModel (main.go:210-225), before main sizes it to the terminal
\* ------------------------------------------------------------------------
ModelInit ==
    /\ viewWidth = 0
    /\ viewHeight = 0
    /\ viewLines = 0
    /\ yOffset = 0
    /\ rendered = 0
    /\ totalLines = 0
    /\ links = <<>>
    /\ headings = <<>>
    /\ linkIndex = -1
    /\ err = FALSE
    /\ animating = FALSE
    /\ targetOffset = 0
    /\ pendingTicks = 0
    /\ openCalls = <<>>
    /\ pc = "main"
    /\ lastMsg = "none"
    /\ reqLive = FALSE

\* the variant's fields as its initialModel leaves them (part_001:417-434), with
\* the flags at their defaults; main.go has none of them and never changes them
CrtInit ==
    [baud |-> FALSE, clock |-> 0, avail |-> 0, streamDone |-> FALSE,
     scanlines |-> FALSE, rxBlink |-> 0, txBlink |-> 0]

ObserversInit ==
    /\ navFrom = -1
    /\ navKeys = <<>>
    /\ steps = -1
    /\ slugIn = <<>>
    /\ slugOut = <<>>
    /\ crt = CrtInit

Init ==
    /\ rawMarkdown \in DocIds
    /\ wrapWidth \in WrapFlags
    /\ ModelInit
    /\ ObserversInit

\* ------------------------------------------------------------------------
\* recalcRendered (main.go:113-137), buildIndexes included
\* ------------------------------------------------------------------------
\* a buildIndexes that drops the selection on every re-render
ClampLinkIndex_Reset(idx, n) == IF idx >= n /\ n > 0 THEN n - 1 ELSE -1

\* buildIndexes (main.go:164-168): the selection after the links are rebuilt
ClampLinkIndex(idx, n) ==
    IF n = 0 THEN -1
    ELSE IF idx >= n THEN n - 1
    ELSE idx

\* a recalcRendered that sizes the viewport before it renders
recalcRendered_SizesFirst(width, height, fails) ==
    LET bodyHeight == IF height - 2 < 1 THEN 1 ELSE height - 2
        wrap == IF wrapWidth <= 0 THEN width ELSE wrapWidth
        dv == DerivedTable[rawMarkdown][wrap]
    IN IF fails
       THEN /\ err' = TRUE
            /\ viewWidth' = width
            /\ viewHeight' = bodyHeight
            /\ UNCHANGED <<rendered, totalLines, viewLines,
                           yOffset, headings, links, linkIndex>>
       ELSE /\ rendered' = wrap
            /\ totalLines' = dv.totalLines
            /\ viewWidth' = width
            /\ viewHeight' = bodyHeight
            /\ viewLines' = dv.viewLines
            /\ yOffset' = SetContent(yOffset, dv.viewLines, bodyHeight)
            /\ headings' = dv.headings
            /\ links' = dv.links
            /\ linkIndex' = ClampLinkIndex(linkIndex, Len(dv.links))
            /\ UNCHANGED err

recalcRendered(width, height, fails) ==
    LET bodyHeight == IF height - 2 < 1 THEN 1 ELSE height - 2
        wrap == IF wrapWidth <= 0 THEN width ELSE wrapWidth
        dv == DerivedTable[rawMarkdown][wrap]
    IN IF fails
       THEN /\ err' = TRUE
            /\ UNCHANGED <<rendered, totalLines, viewWidth, viewHeight, viewLines,
                           yOffset, headings, links, linkIndex>>
       ELSE /\ rendered' = wrap
            /\ totalLines' = dv.totalLines
            /\ viewWidth' = width
            /\ viewHeight' = bodyHeight
            /\ viewLines' = dv.viewLines
            /\ yOffset' = SetContent(yOffset, dv.viewLines, bodyHeight)
            /\ headings' = dv.headings
            /\ links' = dv.links
            /\ linkIndex' = ClampLinkIndex(linkIndex, Len(dv.links))
            /\ UNCHANGED err

\* main (main.go:549-560): the model is sized to the terminal, then the loop starts
Main(width, height, fails) ==
    /\ pc = "main"
    /\ recalcRendered(width, height, fails)
    /\ pc' = "run"
    /\ lastMsg' = "Main"
    /\ openCalls' = <<>>
    /\ UNCHANGED <<rawMarkdown, wrapWidth, animating, targetOffset, pendingTicks, reqLive>>

\* ------------------------------------------------------------------------
\* Update (main.go:232-331), one action for every case
\* ------------------------------------------------------------------------
\* case tea.WindowSizeMsg; viewport.Update does nothing with the message
WindowSizeMsg(width, height, fails) ==
    /\ pc = "run"
    /\ recalcRendered(width, height, fails)
    /\ lastMsg' = "Resize"
    /\ openCalls' = <<>>
    /\ reqLive' = FALSE
    /\ UNCHANGED <<rawMarkdown, wrapWidth, animating, targetOffset, pendingTicks, pc>>

\* "q", "Q" and tea.KeyEsc: tea.Quit
KeyQuit ==
    /\ pc = "run"
    /\ pc' = "quit"
    /\ lastMsg' = "Quit"
    /\ openCalls' = <<>>
    /\ reqLive' = FALSE
    /\ UNCHANGED <<rawMarkdown, wrapWidth, viewWidth, viewHeight, viewLines, yOffset,
                   rendered, totalLines, links, headings, linkIndex, err, animating,
                   targetOffset, pendingTicks>>

\* startScrollTo without the test of main.go:200-203: it animates and schedules
\* a tick even when the offset is already the target
startScrollTo_AlwaysTicks(target) ==
    /\ targetOffset' = ScrollTarget(target)
    /\ pendingTicks < MaxPending
    /\ animating' = TRUE
    /\ pendingTicks' = pendingTicks + 1

\* a startScrollTo whose tick takes the place of the ticks in flight
startScrollTo_Replaces(target) ==
    LET tgt == ScrollTarget(target)
    IN /\ targetOffset' = tgt
       /\ IF yOffset = tgt
          THEN /\ animating' = FALSE
               /\ UNCHANGED pendingTicks
          ELSE /\ pendingTicks < MaxPending
               /\ animating' = TRUE
               /\ pendingTicks' = 1

\* startScrollTo (main.go:191-206); the tick it returns is scheduled by tea.Tick
startScrollTo(target) ==
    LET tgt == ScrollTarget(target)
    IN /\ targetOffset' = tgt
       /\ IF yOffset = tgt
          THEN /\ animating' = FALSE
               /\ UNCHANGED pendingTicks
          ELSE /\ pendingTicks < MaxPending
               /\ animating' = TRUE
               /\ pendingTicks' = pendingTicks + 1

ScrollKey(name, target) ==
    /\ pc = "run"
    /\ startScrollTo(target)
    /\ lastMsg' = name
    /\ openCalls' = <<>>
    /\ reqLive' = TRUE
    /\ UNCHANGED <<rawMarkdown, wrapWidth, viewWidth, viewHeight, viewLines, yOffset,
                   rendered, totalLines, links, headings, linkIndex, err, pc>>

\* case tea.KeyUp
KeyUp == ScrollKey("Up", yOffset - 1)

\* case tea.KeyDown
KeyDown == ScrollKey("Down", yOffset + 1)

\* case tea.KeyPgUp, tea.KeyCtrlB
KeyPgUp == ScrollKey("PgUp", yOffset - viewHeight)

\* case tea.KeyPgDown, tea.KeyCtrlF
KeyPgDown == ScrollKey("PgDown", yOffset + viewHeight)

\* a direct key that stops the animation in flight
DirectKey_Cancels(name, off, idx, opens) ==
    /\ pc = "run"
    /\ yOffset' = off
    /\ linkIndex' = idx
    /\ openCalls' = opens
    /\ lastMsg' = name
    /\ reqLive' = FALSE
    /\ animating' = FALSE
    /\ UNCHANGED <<rawMarkdown, wrapWidth, viewWidth, viewHeight, viewLines,
                   rendered, totalLines, links, headings, err,
                   targetOffset, pendingTicks, pc>>

\* a key that changes the offset or the selection directly, or nothing at all
DirectKey(name, off, idx, opens) ==
    /\ pc = "run"
    /\ yOffset' = off
    /\ linkIndex' = idx
    /\ openCalls' = opens
    /\ lastMsg' = name
    /\ reqLive' = FALSE
    /\ UNCHANGED <<rawMarkdown, wrapWidth, viewWidth, viewHeight, viewLines,
                   rendered, totalLines, links, headings, err, animating,
                   targetOffset, pendingTicks, pc>>

\* case tea.KeyHome
KeyHome == DirectKey("Home", GotoTop(viewLines, viewHeight), linkIndex, <<>>)

\* case tea.KeyEnd
KeyEnd == DirectKey("End", GotoBottom(viewLines, viewHeight), linkIndex, <<>>)

\* a Tab that does not test the link list
KeyTab_NoGuard ==
    LET idx == NextLinkIndex(linkIndex, Len(links))
    IN DirectKey("Tab", scrollToLink(idx), idx, <<>>)

\* case tea.KeyTab
KeyTab ==
    IF Len(links) > 0
    THEN LET idx == NextLinkIndex(linkIndex, Len(links))
         IN DirectKey("Tab", scrollToLink(idx), idx, <<>>)
    ELSE DirectKey("Tab", yOffset, linkIndex, <<>>)

\* case tea.KeyShiftTab
KeyShiftTab ==
    IF Len(links) > 0
    THEN LET idx == PrevLinkIndex(linkIndex, Len(links))
         IN DirectKey("ShiftTab", scrollToLink(idx), idx, <<>>)
    ELSE DirectKey("ShiftTab", yOffset, linkIndex, <<>>)

\* case tea.KeyEnter; openURL's error is dropped (_ = openURL(dest))
KeyEnter ==
    IF linkIndex >= 0 /\ linkIndex < Len(links)
    THEN \E openFails \in BOOLEAN :
            DirectKey("Enter", followLinkOffset(links[linkIndex + 1]), linkIndex,
                      followLinkOpens(links[linkIndex + 1]))
    ELSE DirectKey("Enter", yOffset, linkIndex, <<>>)

\* any other key: return m, nil (main.go:294)
KeyOther == DirectKey("Key", yOffset, linkIndex, <<>>)

\* case scrollTick (main.go:296-326)
ScrollTick ==
    /\ pc = "run"
    /\ pendingTicks > 0
    /\ lastMsg' = "Tick"
    /\ openCalls' = <<>>
    /\ IF ~animating
       THEN /\ pendingTicks' = pendingTicks - 1
            /\ UNCHANGED <<yOffset, animating>>
       ELSE IF yOffset = targetOffset
            THEN /\ animating' = FALSE
                 /\ pendingTicks' = pendingTicks - 1
                 /\ UNCHANGED yOffset
            ELSE LET newOff == TickNewOffset(yOffset, targetOffset)
                 IN /\ yOffset' = SetYOffset(newOff, viewLines, viewHeight)
                    /\ IF newOff # targetOffset
                       THEN UNCHANGED <<animating, pendingTicks>>
                       ELSE /\ animating' = FALSE
                            /\ pendingTicks' = pendingTicks - 1
    /\ UNCHANGED <<rawMarkdown, wrapWidth, viewWidth, viewHeight, viewLines,
                   rendered, totalLines, links, headings, linkIndex, err,
                   targetOffset, pc, reqLive>>

\* ------------------------------------------------------------------------
\* The viewer: every message in any order
\* ------------------------------------------------------------------------
Unobserved == UNCHANGED <<navFrom, navKeys, steps, slugIn, slugOut, crt>>

Next ==
    \/ \E w \in TermWidths, h \in TermHeights, f \in BOOLEAN : Main(w, h, f) /\ Unobserved
    \/ \E w \in TermWidths, h \in TermHeights, f \in BOOLEAN :
          WindowSizeMsg(w, h, f) /\ Unobserved
    \/ KeyQuit /\ Unobserved
    \/ KeyUp /\ Unobserved
    \/ KeyDown /\ Unobserved
    \/ KeyPgUp /\ Unobserved
    \/ KeyPgDown /\ Unobserved
    \/ KeyHome /\ Unobserved
    \/ KeyEnd /\ Unobserved
    \/ KeyTab /\ Unobserved
    \/ KeyShiftTab /\ Unobserved
    \/ KeyEnter /\ Unobserved
    \/ KeyOther /\ Unobserved
    \/ ScrollTick /\ Unobserved

Spec == Init /\ [][Next]_vars

\* ------------------------------------------------------------------------
\* slugify on its own: every string over an alphabet, up to a length
\* ------------------------------------------------------------------------
\* 'A', 'b', '1', ' ', '-', '!', '\t'
SlugAlphabet == {65, 98, 49, 32, 45, 33, 9}

\* the longest argument tried
MaxSlugLen == 4

\* a model that handles no message
IdleModel ==
    /\ rawMarkdown = 3
    /\ wrapWidth = 0
    /\ ModelInit

SlugInit ==
    /\ IdleModel
    /\ navFrom = -1
    /\ navKeys = <<>>
    /\ steps = -1
    /\ slugIn = <<>>
    /\ slugOut = slugify(<<>>)
    /\ crt = CrtInit

\* slugify is called on the argument made one rune longer
SlugCall(r) ==
    /\ Len(slugIn) < MaxSlugLen
    /\ slugIn' = Append(slugIn, r)
    /\ slugOut' = slugify(Append(slugIn, r))
    /\ UNCHANGED <<progVars, navVars, steps, crt>>

\* the two strings the slugification examples name
SlugGettingStarted ==
    <<71, 101, 116, 116, 105, 110, 103, 32, 83, 116, 97, 114, 116, 101, 100, 33>>  \* "Getting Started!"
SlugPaddedAB == <<32, 32, 65, 45, 45, 45, 66, 32, 32>>  \* "  A---B  "

\* slugify is called on one of the examples
SlugExample(s) ==
    /\ slugIn = <<>>
    /\ slugIn' = s
    /\ slugOut' = slugify(s)
    /\ UNCHANGED <<progVars, navVars, steps, crt>>

SlugNext ==
    \/ \E r \in SlugAlphabet : SlugCall(r)
    \/ \E s \in {SlugGettingStarted, SlugPaddedAB} : SlugExample(s)

SlugSpec == SlugInit /\ [][SlugNext]_vars

\* ------------------------------------------------------------------------
\* The scroll engine on its own: one scroll request, then ticks alone
\* ------------------------------------------------------------------------
\* the longest rendering, in lines after the trailing newlines are trimmed
MaxTickLines == 14

\* the newlines a rendering ends with
TickTrailing == {1, 2}

\* the body heights of the viewport
TickHeights == {1, 4}

\* a viewer showing a document without links, idle at any offset the viewport allows
TickInit ==
    /\ rawMarkdown = 3
    /\ wrapWidth = 0
    /\ viewWidth = 40
    /\ rendered = 40
    /\ totalLines \in 1..MaxTickLines
    /\ viewHeight \in TickHeights
    /\ \E k \in TickTrailing : viewLines = totalLines + k
    /\ yOffset \in 0..maxYOffset(viewLines, viewHeight)
    /\ links = <<>>
    /\ headings = <<>>
    /\ linkIndex = -1
    /\ err = FALSE
    /\ animating = FALSE
    /\ targetOffset = 0
    /\ pendingTicks = 0
    /\ openCalls = <<>>
    /\ pc = "run"
    /\ lastMsg = "none"
    /\ reqLive = FALSE
    /\ navFrom = -1
    /\ navKeys = <<>>
    /\ steps = -1
    /\ slugIn = <<>>
    /\ slugOut = <<>>
    /\ crt = CrtInit

\* startScrollTo(target) for any target, legal or not, asked once
TickRequest(target) ==
    /\ steps = -1
    /\ ScrollKey("Scroll", target)
    /\ steps' = 0
    /\ UNCHANGED <<navVars, slugVars, crt>>

\* a tick is handled; the observer counts the ticks handled while animating
TickHandled ==
    /\ steps >= 0
    /\ ScrollTick
    /\ steps' = IF animating THEN steps + 1 ELSE steps
    /\ UNCHANGED <<navVars, slugVars, crt>>

TickNext ==
    \/ \E t \in -2..(MaxTickLines + 2) : TickRequest(t)
    \/ TickHandled

\* tea.Tick fires after 1/60 s and the event loop hands the message to Update:
\* a scheduled tick is always handled
TickSpec == TickInit /\ [][TickNext]_vars /\ WF_vars(TickHandled)

\* ------------------------------------------------------------------------
\* The link navigator on its own: Tab and Shift-Tab, the runs of keys observed
\* ------------------------------------------------------------------------
\* the longest run of Tab/Shift-Tab the observer records before it starts afresh
MaxNavRun == 6

NavObserve(key) ==
    /\ IF Len(navKeys) < MaxNavRun
       THEN /\ navKeys' = Append(navKeys, key)
            /\ UNCHANGED navFrom
       ELSE /\ navKeys' = <<key>>
            /\ navFrom' = linkIndex
    /\ UNCHANGED <<steps, slugIn, slugOut, crt>>

NavNext ==
    \/ \E w \in TermWidths, h \in TermHeights : Main(w, h, FALSE) /\ Unobserved
    \/ KeyTab /\ NavObserve("Tab")
    \/ KeyShiftTab /\ NavObserve("ShiftTab")

NavSpec == Init /\ [][NavNext]_vars

\* ------------------------------------------------------------------------
\* The streaming variant (src/unnamed/part_001): the same viewer, showing the
\* styled output as its bytes arrive at the baud rate, with CRT effects.
\* Modelled with --mono off, --80x25 and --bbs unset, and the "d", "m" and
\* "b" keys never pressed; ansiRE is the expression of main.go:49.
\* ------------------------------------------------------------------------
\* the frames a blink lasts (m.txBlink = 6, m.rxBlink = 6)
BlinkFrames == 6

\* int(elapsed * m.bytesPerSecond) at the moments the clock is read
ClockValues == {0, 3, 40, 75, 120}

\* the documents the variant is run on
StreamDocs == {1}

\* the terminal heights the variant is run at
StreamHeights == {4}

\* strings.Split(s, "\n")
RECURSIVE SplitNL(_)
SplitNL(s) ==
    LET p == StringsIndex(s, <<RuneNL>>)
    IN IF p = 0 THEN <<s>>
       ELSE <<SubSeq(s, 1, p - 1)>> \o SplitNL(SubSeq(s, p + 1, Len(s)))

\* applyPostEffects (part_001:209-247) with mono off, degauss 0 and no 80x25:
\* with scanlines every second line is wrapped in SGR 2 / SGR 22
applyPostEffects(s, scan) ==
    IF scan
    THEN LET lines == SplitNL(TrimRight(s, {RuneNL}))
         IN Join([i \in 1..Len(lines) |->
                    IF i % 2 = 0
                    THEN <<27, 91, 50, 109>> \o lines[i] \o <<27, 91, 50, 50, 109>>
                    ELSE lines[i]],
                 <<RuneNL>>)
    ELSE s

\* prepareStreamTokens (part_001:265-290): the index after the token that
\* starts at i, a control sequence or the plain text up to the next one
RECURSIVE TokenEnd(_, _)
TokenEnd(s, i) ==
    IF MatchANSI(s, i) # 0 THEN MatchANSI(s, i)
    ELSE IF i + 1 > Len(s) \/ MatchANSI(s, i + 1) # 0 THEN i + 1
    ELSE TokenEnd(s, i + 1)

\* the token loop of partialStreamString (part_001:338-359) from the token
\* that starts at i: a token that fits the budget is sent whole, a control
\* sequence that does not is held back, plain text is cut where the budget
\* ends (the outputs are ASCII, one byte to the rune)
RECURSIVE PartialFrom(_, _, _)
PartialFrom(s, i, remain) ==
    IF i > Len(s) \/ remain <= 0 THEN <<>>
    ELSE IF TokenEnd(s, i) - i <= remain
    THEN SubSeq(s, i, TokenEnd(s, i) - 1)
            \o PartialFrom(s, TokenEnd(s, i), remain - (TokenEnd(s, i) - i))
    ELSE IF MatchANSI(s, i) # 0 THEN <<>>
    ELSE SubSeq(s, i, i + remain - 1)

\* partialStreamString (part_001:312-360) once allowed is known
partialStreamString(full, baud, allowed) ==
    IF ~baud THEN full
    ELSE IF allowed = 0 THEN <<>>
    ELSE PartialFrom(full, 1, allowed)

\* allowed (part_001:318-324)
StreamAllowed(total, c) == IF c > total THEN total ELSE IF c < 0 THEN 0 ELSE c

\* what the variant shows and indexes for a part of the output
\* (part_001:196-206 and buildIndexes, part_001:674-700).  The viewport is
\* given the lines joined, so it holds as many lines as renderedLines; no
\* match of ansiRE holds a newline, so the joined lines are stripped line by
\* line
DerivedStream(d, wrap, baud, c, scan) ==
    LET full == renderMarkdown(d, wrap)
        post == applyPostEffects(
                    partialStreamString(full, baud, StreamAllowed(Len(full), c)), scan)
        lines == SplitNL(TrimRight(post, {RuneNL}))
        plain == Join([i \in 1..Len(lines) |-> stripANSI(lines[i])], <<RuneNL>>)
    IN [totalLines |-> Len(lines),
        viewLines |-> Len(lines),
        headings |-> HeadingsOf(RawHeadings(d), plain),
        links |-> LinksOf(RawLinks(d), plain)]

\* evaluated once for every document, wrap width, clock value and flag
StreamTable ==
    [d \in StreamDocs |-> [w \in WrapWidths |-> [b \in BOOLEAN |->
        [c \in ClockValues |-> [s \in BOOLEAN |-> DerivedStream(d, w, b, c, s)]]]]]

\* what is on display: the part last built from the output held
StreamShown == StreamTable[rawMarkdown][rendered][crt.baud][crt.clock][crt.scanlines]

\* prepareStreamTokens (part_001:297-309) then partialStreamString
\* (part_001:313-332): the variant's fields after the clock is read as c
StreamClockRead(f, total, c, prepare) ==
    LET allowed == StreamAllowed(total, c)
        p == IF ~prepare THEN f
             ELSE IF ~f.baud THEN [f EXCEPT !.avail = total, !.streamDone = TRUE]
             ELSE IF f.avail > total THEN [f EXCEPT !.avail = total, !.streamDone = TRUE]
             ELSE f
    IN IF ~f.baud THEN p
       ELSE [p EXCEPT !.clock = c,
                      !.rxBlink = IF allowed > f.avail THEN BlinkFrames ELSE p.rxBlink,
                      !.avail = allowed,
                      !.streamDone = (allowed >= total)]

\* recalcRendered (part_001:167-207) when the renderer succeeds, the fields f
\* being the variant's fields as the caller leaves them
recalcRenderedStream(width, height, f, c) ==
    LET bodyHeight == IF height - 2 < 1 THEN 1 ELSE height - 2
        wrap == IF wrapWidth <= 0 THEN width ELSE wrapWidth
        g == StreamClockRead(f, Len(renderMarkdown(rawMarkdown, wrap)), c, TRUE)
        dv == StreamTable[rawMarkdown][wrap][g.baud][g.clock][g.scanlines]
    IN /\ c >= f.clock
       /\ crt' = g
       /\ rendered' = wrap
       /\ totalLines' = dv.totalLines
       /\ viewWidth' = width
       /\ viewHeight' = bodyHeight
       /\ viewLines' = dv.viewLines
       /\ yOffset' = SetContent(yOffset, dv.viewLines, bodyHeight)
       /\ headings' = dv.headings
       /\ links' = dv.links
       /\ linkIndex' = ClampLinkIndex(linkIndex, Len(dv.links))
       /\ UNCHANGED err

StreamObservers == UNCHANGED <<navFrom, navKeys, steps, slugIn, slugOut>>

\* main (part_001:1001-1015): the flags, the first render, then Init
\* (part_001:438-441), which returns scrollTicker()
StreamMain(width, height, baud, scan, c) ==
    /\ pc = "main"
    /\ recalcRenderedStream(width, height,
                            [crt EXCEPT !.baud = baud, !.scanlines = scan], c)
    /\ pc' = "run"
    /\ pendingTicks' = pendingTicks + 1
    /\ lastMsg' = "Main"
    /\ openCalls' = <<>>
    /\ UNCHANGED <<rawMarkdown, wrapWidth, animating, targetOffset, reqLive>>
    /\ StreamObservers

\* case tea.WindowSizeMsg (part_001:445-449)
StreamWindowSizeMsg(width, height, c) ==
    /\ pc = "run"
    /\ recalcRenderedStream(width, height, crt, c)
    /\ lastMsg' = "Resize"
    /\ openCalls' = <<>>
    /\ reqLive' = FALSE
    /\ UNCHANGED <<rawMarkdown, wrapWidth, animating, targetOffset, pendingTicks, pc>>
    /\ StreamObservers

\* the "s" key (part_001:516-520): scanlines toggled, then a re-render
StreamKeyS(c) ==
    /\ pc = "run"
    /\ recalcRenderedStream(viewWidth, viewHeight + 2,
                            [crt EXCEPT !.scanlines = ~crt.scanlines,
                                        !.rxBlink = BlinkFrames], c)
    /\ lastMsg' = "KeyS"
    /\ openCalls' = <<>>
    /\ reqLive' = FALSE
    /\ UNCHANGED <<rawMarkdown, wrapWidth, animating, targetOffset, pendingTicks, pc>>
    /\ StreamObservers

\* case tea.KeyDown (part_001:464-466); startScrollTo is part_001:388-403
StreamKeyDown ==
    /\ ScrollKey("Down", yOffset + 1)
    /\ crt' = [crt EXCEPT !.txBlink = BlinkFrames]
    /\ StreamObservers

\* case scrollTick (part_001:541-605), the clock read as c when it is read
StreamScrollTick(c) ==
    LET streaming == ~crt.streamDone /\ crt.baud
        f1 == IF streaming
              THEN StreamClockRead(crt, Len(renderMarkdown(rawMarkdown, rendered)), c, FALSE)
              ELSE crt
        dv == StreamTable[rawMarkdown][rendered][f1.baud][f1.clock][f1.scanlines]
        lines1 == IF streaming THEN dv.viewLines ELSE viewLines
        off1 == IF streaming THEN SetContent(yOffset, lines1, viewHeight) ELSE yOffset
        moving == animating /\ off1 # targetOffset
        newOff == TickNewOffset(off1, targetOffset)
        anim2 == animating /\ moving /\ newOff # targetOffset
        needsRecalc == streaming \/ moving \/ f1.rxBlink > 0 \/ f1.txBlink > 0
    IN /\ pc = "run"
       /\ pendingTicks > 0
       /\ c >= crt.clock
       /\ ~streaming => c = crt.clock
       /\ crt' = [f1 EXCEPT !.rxBlink = IF f1.rxBlink > 0 THEN f1.rxBlink - 1 ELSE 0,
                            !.txBlink = IF f1.txBlink > 0 THEN f1.txBlink - 1 ELSE 0]
       /\ totalLines' = IF streaming THEN dv.totalLines ELSE totalLines
       /\ viewLines' = lines1
       /\ yOffset' = IF moving THEN SetYOffset(newOff, lines1, viewHeight) ELSE off1
       /\ animating' = anim2
       /\ pendingTicks' = IF needsRecalc \/ f1.scanlines \/ anim2
                          THEN pendingTicks
                          ELSE pendingTicks - 1
       /\ lastMsg' = "Tick"
       /\ openCalls' = <<>>
       /\ UNCHANGED <<rawMarkdown, wrapWidth, viewWidth, viewHeight, rendered,
                      links, headings, linkIndex, err, targetOffset, pc, reqLive>>
       /\ StreamObservers

StreamInit ==
    /\ rawMarkdown \in StreamDocs
    /\ wrapWidth = 0
    /\ ModelInit
    /\ ObserversInit

StreamTick == \E c \in ClockValues : StreamScrollTick(c)

\* a tick that reads a later clock: time.Since(m.txStart) grows from tick to tick
StreamTickAdvance == \E c \in ClockValues : c > crt.clock /\ StreamScrollTick(c)

StreamNext ==
    \/ \E w \in TermWidths, h \in StreamHeights, b \in BOOLEAN, s \in BOOLEAN,
          c \in ClockValues : StreamMain(w, h, b, s, c)
    \/ \E w \in TermWidths, h \in StreamHeights, c \in ClockValues :
          StreamWindowSizeMsg(w, h, c)
    \/ \E c \in ClockValues : StreamKeyS(c)
    \/ StreamKeyDown
    \/ StreamTick

\* tea.Tick fires after 1/60 s and the event loop hands the message to Update
StreamSpec ==
    StreamInit /\ [][StreamNext]_vars /\ WF_vars(StreamTick) /\ WF_vars(StreamTickAdvance)

\* ------------------------------------------------------------------------
\* A resize while a scroll is animated: direct jumps, then one scroll
\* request, one resize once the request is made, and ticks
\* ------------------------------------------------------------------------
ResizeNext ==
    \/ \E w \in TermWidths, h \in TermHeights : Main(w, h, FALSE) /\ Unobserved
    \/ lastMsg \in {"Main", "Home", "End"} /\ KeyHome /\ Unobserved
    \/ lastMsg \in {"Main", "Home", "End"} /\ KeyEnd /\ Unobserved
    \/ lastMsg \in {"Main", "Home", "End"} /\ KeyUp /\ Unobserved
    \/ lastMsg \in {"Main", "Home", "End"} /\ KeyDown /\ Unobserved
    \/ lastMsg \in {"Main", "Home", "End"} /\ KeyPgUp /\ Unobserved
    \/ lastMsg \in {"Main", "Home", "End"} /\ KeyPgDown /\ Unobserved
    \/ \E w \in TermWidths, h \in TermHeights :
          reqLive /\ WindowSizeMsg(w, h, FALSE) /\ Unobserved
    \/ ScrollTick /\ Unobserved

\* tea.Tick fires after 1/60 s and the event loop hands the message to Update:
\* a scheduled tick is always handled
ResizeSpec == Init /\ [][ResizeNext]_vars /\ WF_vars(ScrollTick /\ Unobserved)

\* ------------------------------------------------------------------------
\* The heading scan on its own: buildIndexes on every raw text over an
\* alphabet, up to a length, with no output rendered yet (m.rendered = "")
\* ------------------------------------------------------------------------
\* \s of the expression syntax: [\t\n\f\r ]
IsReSpace(r) == r \in {9, 10, 12, 13, 32}

\* the length of the longest run of runes of set that starts at i
RECURSIVE RunLen(_, _, _)
RunLen(s, i, set) ==
    IF i <= Len(s) /\ s[i] \in set THEN 1 + RunLen(s, i + 1, set) ELSE 0

\* (.*)$ from c: the index after the last rune before the next newline
RECURSIVE LineEnd(_, _)
LineEnd(s, c) == IF c > Len(s) \/ s[c] = RuneNL THEN c ELSE LineEnd(s, c + 1)

\* reHeading (main.go:54) tried at i: (?m)^\s{0,3}#{1,6}\s+(.*)$
\* <<start of group 1, end of the match>>, <<>> when there is no match at i.
\* Every repetition is greedy and the rest always matches after the longest
\* run: whitespace runs take newlines too, '.' takes all but a newline.
reHeadingMatch(s, i) ==
    LET ws == {r \in 0..255 : IsReSpace(r)}
        w == RunLen(s, i, ws)
        h == RunLen(s, i + w, {RuneHash})
        v == RunLen(s, i + w + h, ws)
    IN IF (i = 1 \/ s[i - 1] = RuneNL) /\ w <= 3 /\ h >= 1 /\ h <= 6 /\ v >= 1
       THEN <<i + w + h + v, LineEnd(s, i + w + h + v)>>
       ELSE <<>>

\* reHeading.FindAllStringSubmatch(s, -1) from i on: group 1 of every match,
\* leftmost first, the search going on where the match before ended
RECURSIVE reHeadingFindAll(_, _)
reHeadingFindAll(s, i) ==
    IF i > Len(s) THEN <<>>
    ELSE LET m == reHeadingMatch(s, i)
         IN IF m = <<>> THEN reHeadingFindAll(s, i + 1)
            ELSE <<SubSeq(s, m[1], m[2] - 1)>> \o reHeadingFindAll(s, m[2])

\* '#', ' ', '\n', 'a', 'A': no text over it holds a link
RawAlphabet == {RuneHash, RuneSpace, RuneNL, 97, 65}

\* the longest raw text tried
MaxRawLen == 5

ExtractInit ==
    /\ rawMarkdown = <<>>
    /\ wrapWidth = 0
    /\ ModelInit
    /\ ObserversInit

\* buildIndexes (main.go:139-169) on the raw text made one rune longer
ExtractCall(r) ==
    /\ Len(rawMarkdown) < MaxRawLen
    /\ rawMarkdown' = Append(rawMarkdown, r)
    /\ headings' = HeadingsOf(reHeadingFindAll(rawMarkdown', 1), <<>>)
    /\ links' = <<>>
    /\ linkIndex' = -1
    /\ UNCHANGED <<wrapWidth, viewWidth, viewHeight, viewLines, yOffset, rendered,
                   totalLines, err, animating, targetOffset, pendingTicks,
                   openCalls, pc, lastMsg, reqLive, navVars, steps, slugVars, crt>>

ExtractNext == \E r \in RawAlphabet : ExtractCall(r)

ExtractSpec == ExtractInit /\ [][ExtractNext]_vars

\* ------------------------------------------------------------------------
\* Properties
\* ------------------------------------------------------------------------
HasSelection == linkIndex >= 0 /\ linkIndex < Len(links)
SelectedLink == links[linkIndex + 1]

\* the step is Update handling the Enter key
EnterStep == lastMsg' = "Enter"

\* C1: after any sequence of operations (keys, ticks, resizes) the viewport
\* offset satisfies 0 <= offset <= max(0, totalLines - height).
C1_OffsetInRange ==
    /\ yOffset >= 0
    /\ yOffset <= Max(0, totalLines - viewHeight)

\* a tick handled while animating, after the scroll request
C2_TickStep ==
    (steps >= 0 /\ steps' = steps + 1) =>
        /\ Abs(targetOffset' - yOffset') < Abs(targetOffset - yOffset)
        /\ targetOffset > yOffset => (yOffset' > yOffset /\ yOffset' <= targetOffset)
        /\ targetOffset < yOffset => (yOffset' < yOffset /\ yOffset' >= targetOffset)
        /\ targetOffset' = targetOffset

\* every tick brings the offset at least one line nearer: the ticks handled and
\* the distance left never add up to more than the lines the viewport holds
C2_Bounded ==
    steps >= 0 =>
        /\ targetOffset >= 0
        /\ targetOffset <= Max(0, totalLines - viewHeight)
        /\ steps + Abs(targetOffset - yOffset) <= viewLines

C2_IdleAtTarget == (steps >= 0 /\ ~animating) => yOffset = targetOffset

\* C2: from any starting offset and for any legal target, repeated ticks reach
\* exactly targetOffset in a bounded number of steps; every tick strictly
\* shortens the distance, never passes the target and never turns back, and the
\* engine ends Idle.
C2_ScrollTerminates ==
    /\ [][C2_TickStep]_vars
    /\ [](C2_Bounded)
    /\ [](C2_IdleAtTarget)
    /\ (steps >= 0) ~> (~animating /\ yOffset = targetOffset /\ pendingTicks = 0)

\* a scroll over ten lines or more has run to its end
C2_Witness ==
    /\ steps >= 5
    /\ ~animating
    /\ yOffset = targetOffset
    /\ pendingTicks = 0

\* the run observed is n Tab keys pressed from "none selected"
TabsFromNone(n) ==
    /\ navFrom = -1
    /\ navKeys = [i \in 1..n |-> "Tab"]

\* C3 as written: with N >= 1 links, N consecutive Tab keys from "none
\* selected" leave the selection at index 0.
C3_Original ==
    (Len(links) >= 1 /\ TabsFromNone(Len(links))) => linkIndex = 0

\* C3, amended: with N >= 1 links, N consecutive Tab keys from "none selected"
\* leave the selection at the last index N-1, and the (N+1)-th returns it to
\* index 0 (n keys leave it at (n-1) mod N).
C3_TabCycle ==
    /\ (Len(links) >= 1 /\ TabsFromNone(Len(links))) => linkIndex = Len(links) - 1
    /\ (Len(links) >= 1 /\ TabsFromNone(Len(links) + 1)) => linkIndex = 0
    /\ \A n \in 1..MaxNavRun :
          (Len(links) >= 1 /\ TabsFromNone(n)) => linkIndex = (n - 1) % Len(links)

C3_Witness ==
    /\ Len(links) = 5
    /\ TabsFromNone(6)
    /\ linkIndex = 0

C4_Step ==
    /\ (Len(links) >= 1 /\ lastMsg' = "Tab") =>
          linkIndex' = IF linkIndex = -1 THEN 0 ELSE (linkIndex + 1) % Len(links)
    /\ (Len(links) >= 1 /\ lastMsg' = "ShiftTab") =>
          linkIndex' = IF linkIndex = -1 THEN Len(links) - 1
                       ELSE (linkIndex - 1 + Len(links)) % Len(links)

C4_RoundTrip ==
    (/\ navFrom >= 0
     /\ Len(links) >= 1
     /\ navKeys \in {<<"Tab", "ShiftTab">>, <<"ShiftTab", "Tab">>}) => linkIndex = navFrom

\* C4: with N >= 1 links, Tab selects 0 from "none" and (i+1) mod N from i;
\* Shift-Tab selects N-1 from "none" and (i-1+N) mod N from i; Tab then
\* Shift-Tab, and Shift-Tab then Tab, from a selected index return to it.
C4_Circular == [][C4_Step /\ C4_RoundTrip']_vars

C4_Witness ==
    /\ navFrom >= 1
    /\ navKeys = <<"Tab", "ShiftTab">>
    /\ linkIndex = navFrom
    /\ Len(links) >= 2

\* the headings whose displayText is "Introduction" and whose line is resolved
IntroductionHeadings ==
    {i \in 1..Len(headings) :
        headings[i].text = Doc2Heading1 /\ headings[i].renderedLine >= 0}

\* Enter on a link with one of the targets resolves to the heading "Introduction"
ResolvesToIntroduction(targets) ==
    (EnterStep /\ HasSelection /\ SelectedLink.target \in targets) =>
        \A i \in IntroductionHeadings :
            /\ FollowHeading(TrimHashPrefix(SelectedLink.target)) = i
            /\ yOffset' = Clamp(headings[i].renderedLine, 0, Max(0, totalLines - viewHeight))

\* C5 as written: the heading with displayText "Introduction" (anchor "intro" in
\* the claim; buildIndexes gives it the anchor "introduction") is the heading
\* that #intro, #Introduction and #INTRO each resolve to.
C5_Original ==
    [][ResolvesToIntroduction({Doc2Link1Dest, Doc2Link2Dest, Doc2Link3Dest})]_vars

\* C5, amended: the heading with displayText "Introduction", whose anchor is
\* slugify("Introduction") = "introduction", is the heading that #introduction,
\* #Introduction and #INTRODUCTION each resolve to.
C5_AnchorResolution ==
    [][ResolvesToIntroduction({Doc2Link4Dest, Doc2Link2Dest, Doc2Link5Dest})]_vars

C5_Witness ==
    /\ lastMsg = "Enter"
    /\ HasSelection
    /\ SelectedLink.target = Doc2Link5Dest
    /\ \E i \in IntroductionHeadings :
          /\ yOffset = Clamp(headings[i].renderedLine, 0, Max(0, totalLines - viewHeight))
          /\ yOffset # Clamp(SelectedLink.renderedLine, 0, Max(0, totalLines - viewHeight))

\* a slug with two hyphens side by side
HasDoubleHyphen(s) ==
    \E i \in 1..(Len(s) - 1) : s[i] = RuneHyphen /\ s[i + 1] = RuneHyphen

\* C6: slug("Getting Started!") = "getting-started", slug("  A---B  ") = "a-b",
\* and no result of slugify holds two adjacent hyphens.
C6_Collapses ==
    /\ slugIn = SlugGettingStarted =>
          slugOut = <<103, 101, 116, 116, 105, 110, 103, 45, 115, 116, 97, 114, 116, 101, 100>>
    /\ slugIn = SlugPaddedAB => slugOut = <<97, 45, 98>>
    /\ ~HasDoubleHyphen(slugOut)

\* C7: the result of slugify never starts or ends with a hyphen and holds only
\* lowercase ASCII letters, digits and hyphens.
C7_SlugShape ==
    /\ slugOut # <<>> => (slugOut[1] # RuneHyphen /\ slugOut[Len(slugOut)] # RuneHyphen)
    /\ \A i \in 1..Len(slugOut) :
          \/ (slugOut[i] >= 97 /\ slugOut[i] <= 122)
          \/ (slugOut[i] >= 48 /\ slugOut[i] <= 57)
          \/ slugOut[i] = RuneHyphen

\* slugify("-A !") = "a": hyphen, space and punctuation at the ends are gone
C7_Witness ==
    /\ slugIn = <<45, 65, 32, 33>>
    /\ slugOut = <<97>>

\* the fields FollowSelected() must leave alone
C8_Frame ==
    /\ yOffset' = yOffset
    /\ linkIndex' = linkIndex
    /\ animating' = animating
    /\ targetOffset' = targetOffset

C8_NothingChanges ==
    /\ openCalls' = <<>>
    /\ UNCHANGED <<viewWidth, viewHeight, viewLines, yOffset, rendered, totalLines,
                   links, headings, linkIndex, err, animating, targetOffset,
                   pendingTicks, pc>>

\* C8 as written: Enter on a selected link whose target does not begin with
\* '#' calls openURL exactly once with the link's target string and leaves the
\* offset, the selection, the animation flag and targetOffset unchanged; Enter
\* with no link selected changes nothing and calls nothing.
C8_Original ==
    [][EnterStep =>
        /\ (HasSelection /\ ~HasHashPrefix(SelectedLink.target)) =>
              (openCalls' = <<SelectedLink.target>> /\ C8_Frame)
        /\ ~HasSelection => C8_NothingChanges]_vars

\* C8, amended: Enter on a selected link whose target, with the white space
\* around it trimmed, is not empty and does not begin with '#' calls openURL
\* exactly once with the trimmed target and leaves the offset, the selection,
\* the animation flag and targetOffset unchanged; Enter with no link selected
\* changes nothing and calls nothing.
C8_ExternalOpen ==
    [][EnterStep =>
        /\ (/\ HasSelection
            /\ TrimSpace(SelectedLink.target) # <<>>
            /\ ~HasHashPrefix(TrimSpace(SelectedLink.target))) =>
              (openCalls' = <<TrimSpace(SelectedLink.target)>> /\ C8_Frame)
        /\ ~HasSelection => C8_NothingChanges]_vars

\* "https://example.org" was opened while an animation was in flight
C8_Witness ==
    /\ lastMsg = "Enter"
    /\ HasSelection
    /\ SelectedLink.target = Doc1Link2Dest
    /\ openCalls = <<Doc1Link2Dest>>
    /\ animating
    /\ yOffset # targetOffset

\* the headings that match a and have a resolved line
C9_Matching(a) ==
    {i \in 1..Len(headings) :
        /\ \/ headings[i].anchor = a
           \/ slugify(headings[i].text) = a
           \/ slugify(a) = headings[i].anchor
        /\ headings[i].renderedLine >= 0}

\* C9: Enter on a selected link whose target is '#'+a, where a heading matches a
\* and has a resolved renderedLine L (the first such heading in document
\* order), sets the offset at once to L clamped into
\* [0, max(0, totalLines - height)], and the animation is not touched.
C9_DirectJump ==
    [][(EnterStep /\ HasSelection /\ HasHashPrefix(SelectedLink.target)) =>
        LET M == C9_Matching(Tail(SelectedLink.target))
        IN M # {} =>
            \E i \in M :
                /\ \A j \in M : i <= j
                /\ yOffset' = Clamp(headings[i].renderedLine, 0,
                                    Max(0, totalLines - viewHeight))
                /\ animating' = animating
                /\ targetOffset' = targetOffset
                /\ pendingTicks' = pendingTicks]_vars

\* the jump went to a heading's line, which is not the link's own line, while
\* an animation was in flight
C9_Witness ==
    /\ lastMsg = "Enter"
    /\ HasSelection
    /\ HasHashPrefix(SelectedLink.target)
    /\ C9_Matching(Tail(SelectedLink.target)) # {}
    /\ \E i \in C9_Matching(Tail(SelectedLink.target)) :
          yOffset = Clamp(headings[i].renderedLine, 0, Max(0, totalLines - viewHeight))
    /\ SelectedLink.renderedLine >= 0
    /\ yOffset # Clamp(SelectedLink.renderedLine, 0, Max(0, totalLines - viewHeight))
    /\ animating

\* the scroll key asks for the offset moved by delta, clamped; the offset itself
\* does not move yet
C10_Request(name, delta) ==
    lastMsg' = name =>
        /\ targetOffset' = Clamp(yOffset + delta, 0, Max(0, totalLines - viewHeight))
        /\ yOffset' = yOffset
        /\ animating' = (yOffset # targetOffset')

\* the request has run to its end with ticks alone in between
C10_Completed == (reqLive /\ ~animating) => yOffset = targetOffset

\* C10: Up and Down request an animated scroll to offset-1 and offset+1, PageUp
\* and PageDown to offset-height and offset+height, each clamped to the legal
\* range; once the animation has run to its end with no other event in between,
\* the offset is that clamped target.
C10_AnimatedScroll ==
    [][/\ C10_Request("Up", -1)
       /\ C10_Request("Down", 1)
       /\ C10_Request("PgUp", -viewHeight)
       /\ C10_Request("PgDown", viewHeight)
       /\ (lastMsg' = "Tick" /\ reqLive) => targetOffset' = targetOffset
       /\ C10_Completed']_vars

\* a request was made, ticks ran, and the engine is idle at the target
C10_Witness ==
    /\ lastMsg = "Tick"
    /\ reqLive
    /\ ~animating
    /\ pendingTicks = 0
    /\ yOffset = targetOffset
    /\ yOffset >= 2

\* C11: Home sets the offset to 0 and End sets it to max(0, totalLines - height)
\* in the transition that handles the key; neither enters Animating nor
\* schedules a tick.
C11_DirectJumps ==
    [][/\ lastMsg' = "Home" =>
            /\ yOffset' = 0
            /\ animating' = animating
            /\ pendingTicks' = pendingTicks
       /\ lastMsg' = "End" =>
            /\ yOffset' = Max(0, totalLines - viewHeight)
            /\ animating' = animating
            /\ pendingTicks' = pendingTicks]_vars

\* an event handled while Idle that leaves the engine Idle (any event but a
\* scroll request that starts an animation) schedules no tick
C12_IdleStep == (~animating /\ ~animating') => pendingTicks' <= pendingTicks

\* C12: the timer tick is never scheduled while no animation is in progress:
\* handling an event while Idle (program start and a stray tick included)
\* schedules no new tick, so once the engine is Idle the number of pending
\* ticks reaches zero, unless a scroll request starts an animation or the
\* program quits first.
C12_NoIdleTicks ==
    /\ [][C12_IdleStep]_vars
    /\ (pc = "run" /\ ~animating) ~> (pendingTicks = 0 \/ animating \/ pc = "quit")


\* ------------------------------------------------------------------------
\* View (main.go:395-440)
\* ------------------------------------------------------------------------
\* View (main.go:396-398): with an error recorded the frame is the error
\* message; otherwise it is header, viewport and progress bar
ViewFrame == IF err THEN "error" ELSE "document"

\* C13: a render failure is recorded in err and shown by View while the
\* loop keeps running, and a later successful re-render clears it: after
\* a re-render that sized the viewport (only a successful one does,
\* main.go:131-135) err is empty and View shows the document.
C13_Step ==
    /\ (err' /\ ~err) => (pc' = "run" /\ ViewFrame' = "error")
    /\ (lastMsg' = "Resize" /\ <<viewWidth', viewHeight'>> # <<viewWidth, viewHeight>>)
          => (~err' /\ ViewFrame' = "document")

C13_ErrorCleared == [][C13_Step]_vars


\* View (main.go:399-402): the width the footer is drawn at
ViewWidth == IF viewWidth <= 0 THEN 80 ELSE viewWidth

\* View (main.go:427): den := max(1, totalLines - Height)
ViewDen == Max(1, totalLines - viewHeight)

\* drawProgressBar (main.go:442-452): the numbers of filled cells the bar
\* can have for the ratio num / den.  Below three columns the bar is all
\* filled cells.  Otherwise fill = int(float64(width) * ratio): the floor of
\* the product, except that a ratio float64 cannot hold exactly can put a
\* whole-number product just under it
drawProgressBar(width, num, den) ==
    IF width < 3 THEN {width}
    ELSE LET q == (width * num) \div den
             exact == \E k \in 0..10 : (num * 2^k) % den = 0
             fills == IF (width * num) % den = 0 /\ ~exact
                      THEN {q - 1, q}
                      ELSE {q}
         IN {Clamp(f, 0, width) : f \in fills}

\* the filled cells of the footer View draws (main.go:429-437): the ratio
\* is YOffset / den held in [0, 1]
ViewFills == drawProgressBar(ViewWidth, Clamp(yOffset, 0, ViewDen), ViewDen)

\* ------------------------------------------------------------------------
\* The edges of the command line and the terminal: a negative --wrap, and
\* terminals down to one column.  With --wrap 20 the document is rendered
\* at 20 columns whatever the terminal's width; without a positive --wrap it
\* is rendered at the terminal's width, one of TermWidths
\* ------------------------------------------------------------------------
BarWidths == {1, 2, 3, 20}

\* main (main.go:566): IntVar takes any integer for --wrap
ViewInit ==
    /\ rawMarkdown \in DocIds
    /\ wrapWidth \in {-1, 20}
    /\ ModelInit
    /\ ObserversInit

ViewNext ==
    \/ \E w \in (IF wrapWidth > 0 THEN BarWidths ELSE TermWidths), h \in TermHeights :
          Main(w, h, FALSE) /\ Unobserved
    \/ \E w \in (IF wrapWidth > 0 THEN BarWidths ELSE TermWidths), h \in TermHeights :
          WindowSizeMsg(w, h, FALSE) /\ Unobserved
    \/ KeyUp /\ Unobserved
    \/ KeyDown /\ Unobserved
    \/ KeyHome /\ Unobserved
    \/ KeyEnd /\ Unobserved
    \/ ScrollTick /\ Unobserved

ViewSpec == ViewInit /\ [][ViewNext]_vars

\* C14: the progress bar's ratio has denominator 1 when the document fits
\* the viewport (never zero or negative); at offset 0 the bar has no filled
\* cell; the number of filled cells is always within [0, width].
C14_ProgressBar ==
    (pc = "run" /\ ~err) =>
        /\ ViewDen >= 1
        /\ totalLines <= viewHeight => ViewDen = 1
        /\ yOffset = 0 => ViewFills = {0}
        /\ ViewFills \subseteq 0..ViewWidth


\* C15: a negative --wrap is rejected before startup: with wrapWidth < 0
\* the program never leaves main for the interactive loop (only wrap = 0
\* stands for the terminal's width).
C15_NegativeWrapRejected == wrapWidth < 0 => pc = "main"


\* the target a scroll key asks startScrollTo for (main.go:251-260)
C16_Asked ==
    CASE lastMsg' = "Up" -> yOffset - 1
      [] lastMsg' = "Down" -> yOffset + 1
      [] lastMsg' = "PgUp" -> yOffset - viewHeight
      [] OTHER -> yOffset + viewHeight

\* C16: startScrollTo(target) clamps target to
\* [0, max(0, totalLines - height)] and stores it in targetOffset; if it
\* equals the current offset the engine is Idle afterwards and no tick is
\* scheduled; otherwise the engine is Animating afterwards and exactly one
\* tick is scheduled; the offset itself is not changed by the request.
C16_RequestScrollTo ==
    [][lastMsg' \in {"Up", "Down", "PgUp", "PgDown"} =>
        LET lo == IF C16_Asked < 0 THEN 0 ELSE C16_Asked
            tgt == IF lo > Max(0, totalLines - viewHeight)
                   THEN Max(0, totalLines - viewHeight)
                   ELSE lo
        IN /\ targetOffset' = tgt
           /\ yOffset' = yOffset
           /\ tgt = yOffset => (~animating' /\ pendingTicks' = pendingTicks)
           /\ tgt # yOffset => (animating' /\ pendingTicks' = pendingTicks + 1)]_vars

\* a page down asked for more than the document has: the target is the last
\* legal offset, the engine animates towards it with one tick scheduled
C16_Witness ==
    /\ lastMsg = "PgDown"
    /\ animating
    /\ pendingTicks = 1
    /\ targetOffset = Max(0, totalLines - viewHeight)
    /\ targetOffset > yOffset
    /\ targetOffset < yOffset + viewHeight


\* the model's fields a tick can change, left as they were; the tick handled is
\* no longer in flight and none is scheduled in its place
C17_NothingChanges ==
    /\ yOffset' = yOffset
    /\ animating' = animating
    /\ targetOffset' = targetOffset
    /\ pendingTicks' = pendingTicks - 1

\* C17: each tick handled while Animating with offset # targetOffset moves
\* the offset by step = (targetOffset - offset) / 5 truncated toward zero,
\* or by sign(targetOffset - offset) when that quotient is 0; if the new
\* offset equals targetOffset the engine becomes Idle and no tick is
\* rescheduled, otherwise it stays Animating and exactly one tick is
\* rescheduled; a tick handled while Idle changes nothing.
C17_TickRule ==
    [][lastMsg' = "Tick" =>
        /\ ~animating => C17_NothingChanges
        /\ (animating /\ yOffset # targetOffset) =>
              LET diff == targetOffset - yOffset
                  quot == IF diff >= 0 THEN diff \div 5 ELSE -((-diff) \div 5)
                  step == IF quot # 0 THEN quot ELSE IF diff > 0 THEN 1 ELSE -1
              IN /\ yOffset' = yOffset + step
                 /\ targetOffset' = targetOffset
                 /\ yOffset' = targetOffset =>
                        (~animating' /\ pendingTicks' = pendingTicks - 1)
                 /\ yOffset' # targetOffset =>
                        (animating' /\ pendingTicks' = pendingTicks)]_vars


\* C18: when a resize during an animation leaves targetOffset outside the
\* new legal range, the ticks that follow still end the animation: the
\* engine becomes Idle, no tick stays scheduled, and the offset is the new
\* maximum.
C18_ResizeTerminates ==
    (lastMsg = "Resize" /\ animating /\ targetOffset > Max(0, totalLines - viewHeight))
        ~> (~animating /\ pendingTicks = 0 /\ yOffset = Max(0, totalLines - viewHeight))


\* C19: a re-render on resize recomputes totalLines and the height, and
\* the same transition leaves the offset inside the new legal range
\* [0, max(0, totalLines - height)]: an offset beyond it is clamped, one
\* inside it is kept.  Stated for the offsets that were legal before the
\* resize.
C19_ResizeClamps ==
    [][(lastMsg' = "Resize" /\ ~err' /\ yOffset <= Max(0, totalLines - viewHeight)) =>
          yOffset' = Clamp(yOffset, 0, Max(0, totalLines' - viewHeight'))]_vars


\* C20: headings and links are rebuilt on every re-render: after every
\* operation that replaces the styled output on display, every heading's
\* and link's renderedLine is the one the resolution rule gives against the
\* output now displayed, so Tab, Shift-Tab and Enter never use an index
\* computed against an earlier output.
C20_IndexesCurrent ==
    pc = "run" =>
        /\ headings = StreamShown.headings
        /\ links = StreamShown.links


\* C21: a selection change (Tab, Shift-Tab with links) to a link whose
\* renderedLine L is resolved sets the offset at once to L - height/2
\* (integer division) clamped to [0, max(0, totalLines - height)]; the
\* Animating flag and targetOffset are not touched and no tick is scheduled;
\* with L unresolved (negative) the selection changes and the offset stays.
C21_SelectionJump ==
    [][(lastMsg' \in {"Tab", "ShiftTab"} /\ Len(links) > 0) =>
        LET L == links'[linkIndex' + 1].renderedLine
        IN /\ linkIndex' \in 0..(Len(links) - 1)
           /\ links' = links
           /\ animating' = animating
           /\ targetOffset' = targetOffset
           /\ pendingTicks' = pendingTicks
           /\ L >= 0 => yOffset' = Clamp(L - (viewHeight \div 2), 0,
                                         Max(0, totalLines - viewHeight))
           /\ L < 0 => yOffset' = yOffset]_vars

\* a selection made during an animation has put the link's line, which is
\* further down than half a viewport, in the middle of the viewport
C21_Witness ==
    /\ lastMsg \in {"Tab", "ShiftTab"}
    /\ HasSelection
    /\ SelectedLink.renderedLine >= 0
    /\ viewHeight \div 2 > 0
    /\ yOffset = SelectedLink.renderedLine - (viewHeight \div 2)
    /\ yOffset > 0
    /\ animating
    /\ targetOffset # yOffset


\* Enter on a selected link whose trimmed target starts with '#'
C22_EnterOnAnchor ==
    /\ EnterStep
    /\ HasSelection
    /\ HasHashPrefix(TrimSpace(SelectedLink.target))

\* the offset that a jump to line L gives, and the offset when nothing resolves
C22_Jump(L) ==
    IF L >= 0 THEN Clamp(L, 0, Max(0, totalLines - viewHeight)) ELSE yOffset

\* the first of the headings, in document order, that match the selected
\* link's anchor (and, with resolvedOnly, have a resolved line); 0 when none
C22_First(resolvedOnly) ==
    LET a == TrimHashPrefix(TrimSpace(SelectedLink.target))
        M == {i \in 1..Len(headings) :
                /\ HeadingMatches(headings[i], a)
                /\ (resolvedOnly => headings[i].renderedLine >= 0)}
    IN IF M = {} THEN 0 ELSE CHOOSE i \in M : \A j \in M : i <= j

\* C22 as stated: the first heading, in document order, that matches by any
\* of the three strategies alone determines the jump; the link's own line is
\* used only if no heading matches; if nothing resolves the offset is unchanged.
C22_Original ==
    [][C22_EnterOnAnchor =>
        yOffset' = IF C22_First(FALSE) # 0
                   THEN C22_Jump(headings[C22_First(FALSE)].renderedLine)
                   ELSE C22_Jump(SelectedLink.renderedLine)]_vars

\* C22, amended: the first heading, in document order, that matches by any of
\* the three strategies and has a resolved renderedLine determines the jump; a
\* matching heading whose line is unresolved is passed over; if no matching
\* heading has a resolved line the link's own renderedLine is used when it is
\* resolved; if nothing resolves the offset is unchanged.
C22_FollowAnchor ==
    [][C22_EnterOnAnchor =>
        yOffset' = IF C22_First(TRUE) # 0
                   THEN C22_Jump(headings[C22_First(TRUE)].renderedLine)
                   ELSE C22_Jump(SelectedLink.renderedLine)]_vars

\* Enter passed over a matching heading with no line and went to the next
\* matching heading, which is neither where the offset was nor the link's line
C22_Witness ==
    /\ lastMsg = "Enter"
    /\ HasSelection
    /\ HasHashPrefix(TrimSpace(SelectedLink.target))
    /\ C22_First(FALSE) # 0
    /\ headings[C22_First(FALSE)].renderedLine < 0
    /\ C22_First(TRUE) > C22_First(FALSE)
    /\ yOffset = headings[C22_First(TRUE)].renderedLine
    /\ yOffset # SelectedLink.renderedLine
    /\ yOffset > 0


\* the stripped plain text of every output the renderer can give
C23_Plain == [d \in DocIds |-> [w \in WrapWidths |-> stripANSI(renderMarkdown(d, w))]]

\* the needles of the records held, headings first
C23_Needles ==
    [i \in 1..Len(headings) |-> headings[i].text]
        \o [i \in 1..Len(links) |->
                IF HasHashPrefix(links[i].target) THEN links[i].text
                ELSE links[i].target]

C23_Lines ==
    [i \in 1..Len(headings) |-> headings[i].renderedLine]
        \o [i \in 1..Len(links) |-> links[i].renderedLine]

\* L is what the claim gives for needle n in text P
C23_Resolves(P, n, L) ==
    LET occ == {p \in 1..Len(P) :
                   /\ p + Len(n) - 1 <= Len(P)
                   /\ SubSeq(P, p, p + Len(n) - 1) = n}
    IN /\ L < 0 <=> (n = <<>> \/ occ = {})
       /\ L >= 0 => \E p \in occ :
                       /\ \A q \in occ : p <= q
                       /\ L = Cardinality({i \in 1..(p - 1) : P[i] = RuneNL})

\* C23: the needle is the displayText for a heading, the displayText for a
\* link whose target starts with '#' and the target for any other link;
\* renderedLine is the number of newlines before the first occurrence of the
\* needle in the stripped plain text, negative exactly when the needle is
\* empty or does not occur; records with identical needles have the same
\* renderedLine.
C23_PositionResolution ==
    (pc = "run" /\ rendered # 0) =>
        /\ \A i \in 1..Len(C23_Needles) :
              C23_Resolves(C23_Plain[rawMarkdown][rendered], C23_Needles[i], C23_Lines[i])
        /\ \A i, j \in 1..Len(C23_Needles) :
              C23_Needles[i] = C23_Needles[j] => C23_Lines[i] = C23_Lines[j]

\* a later heading resolves to an earlier line than the heading before it
\* (the first occurrence of its text is further up), a link's needle does not
\* occur, and an anchor link is resolved by its text
C23_Witness ==
    /\ pc = "run"
    /\ rendered # 0
    /\ \E i \in 1..Len(headings) : \E j \in 1..Len(headings) :
          i < j /\ headings[j].renderedLine >= 0
                /\ headings[j].renderedLine < headings[i].renderedLine
    /\ \E i \in 1..Len(links) : links[i].renderedLine < 0
    /\ \E i \in 1..Len(links) :
          HasHashPrefix(links[i].target) /\ links[i].renderedLine > 0


\* the Heading texts the claim gives for one line: the trimmed remainder after
\* up to 3 leading spaces, 1-6 '#' and whitespace, none when it is blank
C24_LineHeading(line) ==
    LET w == RunLen(line, 1, {9, 12, 13, 32})
        h == RunLen(line, 1 + w, {RuneHash})
        rest == SubSeq(line, 1 + w + h, Len(line))
    IN IF /\ w <= 3 /\ h >= 1 /\ h <= 6
          /\ (rest = <<>> \/ IsReSpace(rest[1]))
          /\ TrimSpace(rest) # <<>>
       THEN <<TrimSpace(rest)>>
       ELSE <<>>

RECURSIVE C24_Expected(_)
C24_Expected(lines) ==
    IF lines = <<>> THEN <<>>
    ELSE C24_LineHeading(Head(lines)) \o C24_Expected(Tail(lines))

\* C24: the extractor produces exactly one Heading per matched heading line,
\* in document order, whose displayText is the trimmed remainder of that same
\* line after the 1-6 '#' characters and whitespace; a heading line whose
\* remainder is blank (a line of '#' characters only, say) produces no Heading.
C24_OnePerHeadingLine ==
    [i \in 1..Len(headings) |-> headings[i].text] = C24_Expected(SplitNL(rawMarkdown))


\* C25: with an empty link list Tab and Shift-Tab change nothing: the selected
\* index stays -1 and the offset, the Animating flag and targetOffset (and
\* the ticks in flight) are as they were.
C25_EmptyListNoOp ==
    [][(lastMsg' \in {"Tab", "ShiftTab"} /\ Len(links) = 0) =>
        /\ linkIndex = -1
        /\ linkIndex' = -1
        /\ links' = <<>>
        /\ yOffset' = yOffset
        /\ animating' = animating
        /\ targetOffset' = targetOffset
        /\ pendingTicks' = pendingTicks
        /\ openCalls' = <<>>]_vars

\* Tab or Shift-Tab was pressed in a rendered document without links while an
\* animation was under way
C25_Witness ==
    /\ lastMsg \in {"Tab", "ShiftTab"}
    /\ rendered # 0
    /\ ~err
    /\ Len(links) = 0
    /\ linkIndex = -1
    /\ animating
    /\ pendingTicks > 0
    /\ yOffset > 0
    /\ yOffset # targetOffset


\* a scroll request (Up, Down, PgUp, PgDown) handled while Animating
C26_RequestWhileAnimating ==
    /\ lastMsg' \in {"Up", "Down", "PgUp", "PgDown"}
    /\ animating

\* C26 as stated: whenever the engine is Animating at least one tick is
\* pending, and each scroll request issued while already Animating adds a
\* further pending tick.
C26_Original ==
    /\ [](animating => pendingTicks > 0)
    /\ [][C26_RequestWhileAnimating => pendingTicks' = pendingTicks + 1]_vars

\* C26, amended: whenever the engine is Animating at least one tick is
\* pending; a scroll request issued while already Animating whose clamped
\* target differs from the offset adds a further pending tick to those in
\* flight, and one whose clamped target equals the offset ends the animation
\* and leaves the ticks in flight as they are.
C26_TickPending ==
    /\ [](animating => pendingTicks > 0)
    /\ [][C26_RequestWhileAnimating =>
            /\ targetOffset' # yOffset =>
                  (animating' /\ pendingTicks' = pendingTicks + 1)
            /\ targetOffset' = yOffset =>
                  (~animating' /\ pendingTicks' = pendingTicks)]_vars

\* a request made during an animation that had already moved the offset:
\* two ticks are in flight
C26_Witness ==
    /\ lastMsg \in {"Up", "Down", "PgUp", "PgDown"}
    /\ animating
    /\ pendingTicks = 2
    /\ reqLive
    /\ yOffset > 0
    /\ yOffset # targetOffset


\* the keys that set the offset or the selection directly
C27_DirectKeys == {"Home", "End", "Tab", "ShiftTab", "Enter"}

\* an offset the viewport accepts as it is
C27_InView(o) == o >= 0 /\ o <= Max(0, viewLines - viewHeight)

C27_Distance(a, b) == IF a >= b THEN a - b ELSE b - a

C28_LinkIndexRange ==
    /\ [](linkIndex = -1 \/ (linkIndex >= 0 /\ linkIndex <= Len(links) - 1))
    /\ [][lastMsg' \in {"Main", "Resize"} =>
            linkIndex' = IF Len(links') = 0 THEN -1
                         ELSE IF linkIndex >= Len(links') THEN Len(links') - 1
                         ELSE linkIndex]_vars
    /\ [][(linkIndex >= 0 /\ Len(links') > 0) => linkIndex' >= 0]_vars

\* the last link was selected and a resize to another width re-rendered the
\* document: the selection is still the last link
C28_Witness ==
    /\ lastMsg = "Resize"
    /\ ~err
    /\ rendered = 20
    /\ Len(links) > 1
    /\ linkIndex = Len(links) - 1


\* C29: a re-render that fails (the error field goes from unset to set)
\* changes the error field only: the styled output, totalLines, the viewport's
\* width, height and content, the offset, headings, links and the selected
\* index are what they were, and so are the animation's fields.
C29_FailedRenderFrame ==
    [][(lastMsg' \in {"Main", "Resize"} /\ ~err /\ err') =>
        /\ rendered' = rendered
        /\ totalLines' = totalLines
        /\ viewWidth' = viewWidth
        /\ viewHeight' = viewHeight
        /\ viewLines' = viewLines
        /\ yOffset' = yOffset
        /\ headings' = headings
        /\ links' = links
        /\ linkIndex' = linkIndex
        /\ animating' = animating
        /\ targetOffset' = targetOffset
        /\ pendingTicks' = pendingTicks]_vars

\* a resize failed after the document had been rendered, scrolled and a link
\* selected: the error is set and the frame is the one from before
C29_Witness ==
    /\ lastMsg = "Resize"
    /\ err
    /\ rendered # 0
    /\ totalLines > 0
    /\ yOffset > 0
    /\ linkIndex >= 0
    /\ animating


\* the stripped targets the strategies are compared on: every text of up to
\* two runes over 'a', 'A', '#' and '-'
C30_Targets ==
    LET R == {97, 65, RuneHash, RuneHyphen}
    IN {<<>>} \cup {<<r>> : r \in R} \cup {<<r, q>> : r \in R, q \in R}

\* C30: every Heading has anchor = slugify(displayText); so the second match
\* strategy of followLink (the slug of the displayText equals the stripped
\* target) holds exactly when the first (the anchor equals it) does; and a
\* heading whose text has no letter or digit has the empty anchor.
C30_AnchorIsSlug ==
    \A i \in 1..Len(headings) :
        LET h == headings[i]
        IN /\ h.anchor = slugify(h.text)
           /\ \A a \in C30_Targets \cup {h.anchor, slugify(h.text)} :
                 (slugify(h.text) = a) <=> (h.anchor = a)
           /\ (\A k \in 1..Len(h.text) :
                   ~(\/ (h.text[k] >= 48 /\ h.text[k] <= 57)
                     \/ (h.text[k] >= 65 /\ h.text[k] <= 90)
                     \/ (h.text[k] >= 97 /\ h.text[k] <= 122)))
                 => h.anchor = <<>>

\* the heading line "# # #": the text "# #" holds no letter or digit, its
\* space becomes a hyphen that the trim removes, and the anchor is empty
C30_Witness ==
    /\ rawMarkdown = <<RuneHash, RuneSpace, RuneHash, RuneSpace, RuneHash>>
    /\ Len(headings) = 1
    /\ headings[1].text = <<RuneHash, RuneSpace, RuneHash>>
    /\ headings[1].anchor = <<>>


\* C32: slugify is idempotent: the slug of a slug is that slug, for every
\* argument over the alphabet up to the length tried.
C32_SlugifyIdempotent ==
    /\ slugOut = slugify(slugIn)
    /\ slugify(slugOut) = slugOut

\* an argument that slugify changes in every way (a leading hyphen trimmed,
\* a capital lowered, a space made a hyphen), whose slug it leaves alone
C32_Witness ==
    /\ slugIn = <<45, 65, 32, 98>>
    /\ slugOut = <<97, 45, 98>>
    /\ slugify(slugOut) = slugOut


\* partialStreamString's result for every output and clock value, baud on
C31_Partial ==
    [d \in StreamDocs |-> [w \in WrapWidths |-> [c \in ClockValues |->
        partialStreamString(renderMarkdown(d, w), TRUE,
                            StreamAllowed(Len(renderMarkdown(d, w)), c))]]]

\* the first n runes of full end inside a control sequence
C31_CutInside(full, n) == \E i \in 1..n : MatchANSI(full, i) > n + 1

\* what holds of the text transmitted so far while the variant streams
C31_Transmitted ==
    (pc = "run" /\ rendered # 0 /\ crt.baud) =>
        LET full == renderMarkdown(rawMarkdown, rendered)
            part == C31_Partial[rawMarkdown][rendered][crt.clock]
        IN /\ Len(part) <= Len(full)
           /\ part = SubSeq(full, 1, Len(part))
           /\ crt.avail = StreamAllowed(Len(full), crt.clock)
           /\ Len(part) <= crt.avail
           /\ ~C31_CutInside(full, Len(part))
           /\ crt.streamDone => part = full
           /\ ~crt.streamDone => pendingTicks > 0

\* C31: in the streaming variant the text transmitted so far is a prefix of
\* the full styled output, is no longer than the byte budget and does not end
\* inside a control sequence; while the stream is not done a tick is pending,
\* and with ticks that read an advancing clock the stream is eventually done,
\* the text shown then being the full output.
C31_StreamCompletes ==
    /\ []C31_Transmitted
    /\ (pc = "run" /\ crt.baud /\ ~crt.streamDone) ~> crt.streamDone

=============================================================================
